---------------------------- MODULE Spec2Model ----------------------------
(***************************************************************************)
(* Model of the spaced-repetition item tracker, the deck builder and the   *)
(* session state machine of the Animals bot.                               *)
(*                                                                         *)
(*   bot/storage/repositories.py      ItemProgressRepository, the tables   *)
(*   bot/services/session_service.py  SessionService (build_deck, ...)     *)
(*   bot/telegram/routers/session.py  start_or_continue, /next_session     *)
(*   bot/telegram/routers/voice.py    handle_voice, on_care, on_care_more  *)
(*                                                                         *)
(* Timestamps are minutes on an integer clock.  One learner is modelled:   *)
(* every table is keyed by the user id and no handler reads another        *)
(* user's rows.                                                            *)
(***************************************************************************)
EXTENDS Integers, Sequences, FiniteSets, TLC

VARIABLES
    now,            \* the wall clock, datetime.now(timezone.utc)
    ticks,          \* how many times the clock has advanced
    item_progress,  \* table item_progress: (level, content_id) -> row
    calls,          \* history: record_correct / record_wrong calls per item
    lastOp,         \* history: the last item-progress call and the row it found
    catalog,        \* content/levels/level<N>.csv: level -> list of ContentItem
    deckCall,       \* history: the last build_deck call and what it returned
    sessions,       \* table sessions: id -> row (ids are 1, 2, ... in creation order)
    session_state,  \* table session_state: session_id -> row
    updated_order,  \* session_state ids by updated_at, most recently written first
    attempts,       \* table attempts, per session: rows logged and correct rows
    progress,       \* table level_progress: level -> best correct count
    pet,            \* table pets: the learner's pet
    lastHandler,    \* history: the last handler run that wrote to a table
    petRow,         \* table pets as PetService (continuous model) keeps it
    petLog,         \* history: the last PetService call that wrote to the row
    sched           \* ReminderScheduler: its configuration, the position of _run
                    \* and the callbacks invoked so far

itemVars == <<now, ticks, item_progress, calls, lastOp>>
deckVars == <<catalog, deckCall>>
sessionVars == <<sessions, session_state, updated_order, attempts, progress, pet,
                 lastHandler>>
auxVars == <<petRow, petLog, sched>>
vars == <<now, ticks, item_progress, calls, lastOp, catalog, deckCall,
          sessions, session_state, updated_order, attempts, progress, pet,
          lastHandler, petRow, petLog, sched>>

-----------------------------------------------------------------------------
(* Bounds of the model *)

MaxTicks == 2        \* clock advances explored
MaxCalls == 5        \* item-progress calls explored per item
MaxDeckSize == 4     \* largest total_items asked of build_deck in SpecDeck
MaxPetTicks == 5     \* clock advances explored in SpecPet
MaxPetCalls == 4     \* PetService calls explored in SpecPet
MaxSchedTicks == 16  \* clock advances explored in SpecSched

(* Program constants *)

TenMinutes == 10     \* timedelta(minutes=10)
TwoDays == 2880      \* timedelta(days=2), in minutes

NoneTs == -1         \* None in a timestamp column

-----------------------------------------------------------------------------
(* Generic helpers *)

Range(s) == {s[i] : i \in 1..Len(s)}

Max2(a, b) == IF a >= b THEN a ELSE b

Min2(a, b) == IF a <= b THEN a ELSE b

\* All orders a list can be left in by random.shuffle.
RECURSIVE Shuffles(_)
Shuffles(s) ==
    IF Len(s) = 0 THEN {<<>>}
    ELSE UNION {{<<s[i]>> \o t :
                    t \in Shuffles([j \in 1..(Len(s) - 1) |->
                                        IF j < i THEN s[j] ELSE s[j + 1]])} :
                i \in 1..Len(s)}

-----------------------------------------------------------------------------
(* ItemProgressRepository *)

\* The row INSERT INTO item_progress (user_id, level, content_id) creates.
DefaultRow ==
    [learn_correct_count |-> 0, review_stage |-> 0,
     next_due_at |-> NoneTs, last_seen_at |-> NoneTs]

\* _ensure_row: INSERT ... ON CONFLICT DO NOTHING.
EnsureRow(ip, k) == IF k \in DOMAIN ip THEN ip ELSE ip @@ (k :> DefaultRow)

\* Mutant: the learning gate tests the count before incrementing it.
CorrectRowLateGate(row, now_utc) ==
    LET learn_count == row.learn_correct_count
        review_stage == row.review_stage
    IN  IF review_stage = 0 /\ learn_count < 2
        THEN IF learn_count >= 2
             THEN [learn_correct_count |-> learn_count + 1, review_stage |-> 1,
                   next_due_at |-> now_utc + TenMinutes, last_seen_at |-> now_utc]
             ELSE [learn_correct_count |-> learn_count + 1, review_stage |-> 0,
                   next_due_at |-> NoneTs, last_seen_at |-> now_utc]
        ELSE IF review_stage = 1
        THEN [learn_correct_count |-> learn_count, review_stage |-> 2,
              next_due_at |-> now_utc + TwoDays, last_seen_at |-> now_utc]
        ELSE IF review_stage = 2
        THEN [learn_correct_count |-> learn_count, review_stage |-> 3,
              next_due_at |-> NoneTs, last_seen_at |-> now_utc]
        ELSE [learn_correct_count |-> learn_count, review_stage |-> review_stage,
              next_due_at |-> NoneTs, last_seen_at |-> now_utc]

\* The UPDATE of record_correct computed from the stored row.
CorrectRow(row, now_utc) ==
    LET learn_count == row.learn_correct_count
        review_stage == row.review_stage
    IN  IF review_stage = 0 /\ learn_count < 2
        THEN IF learn_count + 1 >= 2
             THEN [learn_correct_count |-> learn_count + 1, review_stage |-> 1,
                   next_due_at |-> now_utc + TenMinutes, last_seen_at |-> now_utc]
             ELSE [learn_correct_count |-> learn_count + 1, review_stage |-> 0,
                   next_due_at |-> NoneTs, last_seen_at |-> now_utc]
        ELSE IF review_stage = 1
        THEN [learn_correct_count |-> learn_count, review_stage |-> 2,
              next_due_at |-> now_utc + TwoDays, last_seen_at |-> now_utc]
        ELSE IF review_stage = 2
        THEN [learn_correct_count |-> learn_count, review_stage |-> 3,
              next_due_at |-> NoneTs, last_seen_at |-> now_utc]
        ELSE [learn_correct_count |-> learn_count, review_stage |-> review_stage,
              next_due_at |-> NoneTs, last_seen_at |-> now_utc]

\* Mutant: a wrong answer sends the item back to the start of learning.
WrongRowReset(row, now_utc) ==
    [learn_correct_count |-> 0, review_stage |-> 0,
     next_due_at |-> NoneTs, last_seen_at |-> now_utc]

\* Mutant: a wrong answer reschedules only from the second review stage on.
WrongRowLateReschedule(row, now_utc) ==
    [row EXCEPT !.next_due_at = IF row.review_stage > 1
                                THEN now_utc + TenMinutes ELSE NoneTs,
                !.last_seen_at = now_utc]

\* The UPDATE of record_wrong: only next_due_at and last_seen_at are written.
WrongRow(row, now_utc) ==
    [row EXCEPT !.next_due_at = IF row.review_stage >= 1
                                THEN now_utc + TenMinutes ELSE NoneTs,
                !.last_seen_at = now_utc]

record_correct(ip, k, now_utc) ==
    LET ip1 == EnsureRow(ip, k)
    IN  [ip1 EXCEPT ![k] = CorrectRow(ip1[k], now_utc)]

record_wrong(ip, k, now_utc) ==
    LET ip1 == EnsureRow(ip, k)
    IN  [ip1 EXCEPT ![k] = WrongRow(ip1[k], now_utc)]

\* get_progress: the stored row, or the defaults a missing row stands for.
RowOf(ip, k) == IF k \in DOMAIN ip THEN ip[k] ELSE DefaultRow


-----------------------------------------------------------------------------
(* ContentService: the level files *)

Item(id, sublevel) == [id |-> id, sublevel |-> sublevel]

\* level1.csv of tests/test_services.py::_build_content, plus a second level.
CatalogMonoDi ==
    (1 :> <<Item("mono1", "mono"), Item("mono2", "mono"), Item("di1", "di")>>)
    @@ (2 :> <<Item("b1", "")>>)

\* Two levels without sublevel tags, as in test_deck_is_consecutive_and_levels_advance.
CatalogPlain ==
    (1 :> <<Item("a1", ""), Item("a2", "")>>)
    @@ (2 :> <<Item("b1", ""), Item("b2", "")>>)

\* A level file that has a header and no rows.
CatalogEmptyLevel ==
    (1 :> <<>>) @@ (2 :> <<Item("b1", ""), Item("b2", "")>>)

Catalogs == {CatalogMonoDi, CatalogPlain, CatalogEmptyLevel}

\* available_levels(): the levels that have a file, ascending.
RECURSIVE SortedLevels(_)
SortedLevels(S) ==
    IF S = {} THEN <<>>
    ELSE LET m == CHOOSE x \in S : \A y \in S : x <= y
         IN  <<m>> \o SortedLevels(S \ {m})

available_levels(cat) == SortedLevels(DOMAIN cat)

\* get_level_items(level); a missing file raises FileNotFoundError.
LevelFileExists(cat, level) == level \in DOMAIN cat

get_level_items(cat, level) == cat[level]

CatalogKeys(cat) ==
    UNION {{<<l, cat[l][i].id>> : i \in 1..Len(cat[l])} : l \in DOMAIN cat}

AllKeys == UNION {CatalogKeys(c) : c \in Catalogs}

CatalogSize(cat) == Cardinality(CatalogKeys(cat))

-----------------------------------------------------------------------------
(* SessionService.build_deck *)

DeckItem(level, content_id) == [level |-> level, content_id |-> content_id]

Key(d) == <<d.level, d.content_id>>

\* Mutant: no stage counts as finished.
is_finishedNever(pm, level, content_id) ==
    <<level, content_id>> \in DOMAIN pm /\ pm[<<level, content_id>>].review_stage > 3

is_finished(pm, level, content_id) ==
    <<level, content_id>> \in DOMAIN pm /\ pm[<<level, content_id>>].review_stage = 3

\* The rows due_items() keeps: next_due_at set and not later than now.
DueKeys(pm, now_utc) ==
    {k \in DOMAIN pm : pm[k].next_due_at # NoneTs /\ pm[k].next_due_at <= now_utc}

RECURSIVE SetToSeq(_)
SetToSeq(S) ==
    IF S = {} THEN <<>>
    ELSE LET x == CHOOSE y \in S : TRUE IN <<x>> \o SetToSeq(S \ {x})

\* Mutant: the due list is left in row order.
due_itemsUnsorted(pm, now_utc) ==
    {[i \in 1..Len(s) |-> DeckItem(s[i][1], s[i][2])] :
        s \in Shuffles(SetToSeq(DueKeys(pm, now_utc)))}

\* due_items(): the due rows sorted by next_due_at.  The sort is stable and the
\* row order of SELECT * is unspecified, so rows with equal due times may come
\* in either order.
due_items(pm, now_utc) ==
    {[i \in 1..Len(s) |-> DeckItem(s[i][1], s[i][2])] :
        s \in {t \in Shuffles(SetToSeq(DueKeys(pm, now_utc))) :
                  \A i \in 1..Len(t), j \in 1..Len(t) :
                      i < j => pm[t[i]].next_due_at <= pm[t[j]].next_due_at}}

\* Step 1: the loop over due_items().
RECURSIVE AddDue(_, _, _)
AddDue(st, due, total_items) ==
    IF due = <<>> \/ Len(st.deck) >= total_items THEN st
    ELSE IF Key(Head(due)) \in st.chosen
         THEN AddDue(st, Tail(due), total_items)
         ELSE AddDue([st EXCEPT !.deck = Append(@, Head(due)),
                                !.chosen = @ \cup {Key(Head(due))}],
                     Tail(due), total_items)

\* The loop of add_items over an already shuffled list.
RECURSIVE AddInOrder(_, _, _, _, _)
AddInOrder(st, item_level, items, total_items, pm) ==
    IF items = <<>> \/ Len(st.deck) >= total_items THEN st
    ELSE LET itm == Head(items)
             key == <<item_level, itm.id>>
         IN  IF key \in st.chosen \/ is_finished(pm, item_level, itm.id)
             THEN AddInOrder(st, item_level, Tail(items), total_items, pm)
             ELSE AddInOrder([st EXCEPT !.deck = Append(@, DeckItem(item_level, itm.id)),
                                        !.chosen = @ \cup {key}],
                             item_level, Tail(items), total_items, pm)

\* Mutant: add_items without the test for finished items.
add_itemsKeepFinished(st, item_level, items, total_items, pm) ==
    {AddInOrder(st, item_level, p, total_items, <<>>) : p \in Shuffles(items)}

\* add_items: random.shuffle(items), then the loop.
add_items(st, item_level, items, total_items, pm) ==
    {AddInOrder(st, item_level, p, total_items, pm) : p \in Shuffles(items)}

Unfinished(pm, level, items) ==
    SelectSeq(items, LAMBDA i : ~is_finished(pm, level, i.id))

WithSublevel(items, tag) == SelectSeq(items, LAMBDA i : i.sublevel = tag)

\* Mutant: level 1 is treated like any other level (mono and di in one shuffle).
CurrentLevelStepNoGating(st, cat, pm, current_level, total_items) ==
    LET level_items == IF LevelFileExists(cat, current_level)
                       THEN get_level_items(cat, current_level) ELSE <<>>
        unfinished == Unfinished(pm, current_level, level_items)
    IN  IF unfinished # <<>>
        THEN {[s EXCEPT !.pool = level_items] :
                 s \in add_items(st, current_level, unfinished, total_items, pm)}
        ELSE {[AddInOrder(st, current_level, p, total_items, pm) EXCEPT !.pool = p] :
                 p \in Shuffles(level_items)}

\* Step 2: unfinished items of the current level; level 1 takes "mono" before
\* "di".  `pool` is level_items as the step leaves it: add_items shuffles its
\* argument in place, and `unfinished or level_items` passes level_items itself
\* when nothing is unfinished.
CurrentLevelStep(st, cat, pm, current_level, total_items) ==
    LET level_items == IF LevelFileExists(cat, current_level)
                       THEN get_level_items(cat, current_level) ELSE <<>>
    IN  IF current_level = 1
        THEN LET mono_items == WithSublevel(level_items, "mono")
                 di_items == WithSublevel(level_items, "di")
                 unfinished_mono == Unfinished(pm, 1, mono_items)
                 unfinished_di == Unfinished(pm, 1, di_items)
                 afterMono == IF unfinished_mono # <<>>
                              THEN add_items(st, 1, unfinished_mono, total_items, pm)
                              ELSE {st}
             IN  UNION {IF Len(s.deck) < total_items
                        THEN {[t EXCEPT !.pool = level_items] :
                                 t \in add_items(s, 1,
                                          IF unfinished_di # <<>> THEN unfinished_di
                                          ELSE di_items,
                                          total_items, pm)}
                        ELSE {[s EXCEPT !.pool = level_items]} :
                        s \in afterMono}
        ELSE LET unfinished == Unfinished(pm, current_level, level_items)
             IN  IF unfinished # <<>>
                 THEN {[s EXCEPT !.pool = level_items] :
                          s \in add_items(st, current_level, unfinished, total_items, pm)}
                 ELSE {[AddInOrder(st, current_level, p, total_items, pm)
                            EXCEPT !.pool = p] : p \in Shuffles(level_items)}

\* Step 3: the other levels in ascending order.
RECURSIVE OtherLevelsStep(_, _, _, _, _, _)
OtherLevelsStep(sts, levels, cat, pm, current_level, total_items) ==
    IF levels = <<>> THEN sts
    ELSE LET lvl == Head(levels)
             items == get_level_items(cat, lvl)
             unfinished == Unfinished(pm, lvl, items)
             one(st) == IF Len(st.deck) >= total_items \/ lvl = current_level
                        THEN {st}
                        ELSE add_items(st, lvl,
                                       IF unfinished # <<>> THEN unfinished ELSE items,
                                       total_items, pm)
         IN  OtherLevelsStep(UNION {one(st) : st \in sts}, Tail(levels),
                             cat, pm, current_level, total_items)

\* Step 4: repeats from the current level's pool, cycling from its first entry.
RECURSIVE RepeatFallback(_, _, _, _, _)
RepeatFallback(deck, pool, idx, current_level, total_items) ==
    IF Len(deck) >= total_items \/ pool = <<>> THEN deck
    ELSE RepeatFallback(Append(deck, DeckItem(current_level, pool[(idx % Len(pool)) + 1].id)),
                        pool, idx + 1, current_level, total_items)

\* build_deck: every deck the call can return, with the number of entries each
\* of the first three steps contributed.
build_deck(pm, now_utc, cat, current_level, total_items) ==
    LET empty == [deck |-> <<>>, chosen |-> {}, pool |-> <<>>]
        afterDue == {AddDue(empty, d, total_items) : d \in due_items(pm, now_utc)}
        afterCur(s1) == CurrentLevelStep(s1, cat, pm, current_level, total_items)
        afterOther(s2) == OtherLevelsStep({s2}, available_levels(cat), cat, pm,
                                          current_level, total_items)
    IN  UNION {UNION {{[deck |-> SubSeq(RepeatFallback(s3.deck, s3.pool, 0,
                                                        current_level, total_items),
                                         1, Min2(total_items,
                                                 Len(RepeatFallback(s3.deck, s3.pool, 0,
                                                        current_level, total_items)))),
                        nDue |-> Len(s1.deck),
                        nCur |-> Len(s2.deck) - Len(s1.deck),
                        nOther |-> Len(s3.deck) - Len(s2.deck)] :
                          s3 \in afterOther(s2)} :
                      s2 \in afterCur(s1)} :
               s1 \in afterDue}

-----------------------------------------------------------------------------
(* PetService as the voice and session routers use it.  The routers call     *)
(* rollover_if_needed, is_dead, the six *_level fields, apply_bonus,         *)
(* increment_sessions_today, apply_care_choice and revive of the discrete    *)
(* pet model; that service is exercised by tests/test_services.py and        *)
(* described in the specification (section 4.4, discrete model).             *)

OneDay == 1440          \* minutes in a day
MinNeed == 1            \* "Bonus reduces needs but not below 1"
MaxNeed == 3            \* the highest need level
ZeroDaysToDie == 2      \* "Rollover kills pet after 2 zero days"

\* The need keys in the order _schedule_care lists them.
Needs == <<"hunger", "thirst", "hygiene", "energy", "mood", "health">>

NeedSet == Range(Needs)

\* _need_to_action
need_to_action(need_key) ==
    CASE need_key = "hunger" -> "feed"
      [] need_key = "thirst" -> "water"
      [] need_key = "hygiene" -> "wash"
      [] need_key = "energy" -> "sleep"
      [] need_key = "mood" -> "play"
      [] need_key = "health" -> "heal"
      [] OTHER -> "feed"

CareActions == {need_to_action(n) : n \in NeedSet}

ActionNeed(action) == CHOOSE n \in NeedSet : need_to_action(n) = action

Day(t) == t \div OneDay

\* A pet some days into use: hunger is the most pressing need.  bonuses is
\* history: the number of apply_bonus calls so far.
InitialPet ==
    [is_dead |-> FALSE, sessions_today |-> 0, consecutive_zero_days |-> 0,
     last_day |-> 0, bonuses |-> 0,
     levels |-> [n \in NeedSet |->
                    CASE n = "hunger" -> 3
                      [] n \in {"thirst", "hygiene"} -> 2
                      [] OTHER -> 1]]

\* The end of one day, with death one zero day later.
EndOfDayThirdDay(p) ==
    IF p.is_dead THEN [p EXCEPT !.sessions_today = 0]
    ELSE IF p.sessions_today = 0
    THEN [p EXCEPT !.consecutive_zero_days = @ + 1,
                   !.is_dead = (p.consecutive_zero_days + 1 >= ZeroDaysToDie + 1),
                   !.levels = [n \in NeedSet |-> Min2(MaxNeed, p.levels[n] + 1)]]
    ELSE [p EXCEPT !.consecutive_zero_days = 0, !.sessions_today = 0]

\* The end of one day: a day without a finished session raises every need by
\* one and counts as a zero day; the second zero day in a row kills the pet.
EndOfDay(p) ==
    IF p.is_dead THEN [p EXCEPT !.sessions_today = 0]
    ELSE IF p.sessions_today = 0
    THEN [p EXCEPT !.consecutive_zero_days = @ + 1,
                   !.is_dead = (p.consecutive_zero_days + 1 >= ZeroDaysToDie),
                   !.levels = [n \in NeedSet |-> Min2(MaxNeed, p.levels[n] + 1)]]
    ELSE [p EXCEPT !.consecutive_zero_days = 0, !.sessions_today = 0]

RECURSIVE EndOfDays(_, _)
EndOfDays(p, n) == IF n <= 0 THEN p ELSE EndOfDays(EndOfDay(p), n - 1)

\* rollover_if_needed(user_id, now_utc)
rollover_if_needed(p, now_utc) ==
    IF Day(now_utc) > p.last_day
    THEN [EndOfDays(p, Day(now_utc) - p.last_day) EXCEPT !.last_day = Day(now_utc)]
    ELSE p

increment_sessions_today(p) == [p EXCEPT !.sessions_today = @ + 1]

\* apply_bonus: every need one step down, not below the minimum.
apply_bonus(p) ==
    [p EXCEPT !.levels = [n \in NeedSet |-> Max2(MinNeed, p.levels[n] - 1)],
              !.bonuses = @ + 1]

\* apply_care_choice: two steps down for the active need, one for a decoy.
apply_care_choice(p, action, active_need) ==
    LET need == ActionNeed(action)
        steps == IF need = active_need THEN 2 ELSE 1
    IN  [p EXCEPT !.levels[need] = Max2(MinNeed, @ - steps)]

\* revive: a healthy baseline, death and streak cleared.
revive(p) ==
    [p EXCEPT !.is_dead = FALSE, !.consecutive_zero_days = 0,
              !.levels = [n \in NeedSet |-> MinNeed]]

-----------------------------------------------------------------------------
(* PetService, the continuous model of services/pet_service.py *)

MaxTokens == 2              \* add_action_token: max_tokens=2
SickAt == 3                 \* apply_decay: missed_streak >= 3
DeadAt == 4                 \* apply_decay: missed_streak >= 4
SickHealth == 25            \* apply_decay: min(health, 25)
SickHappiness == 40         \* apply_decay: min(happiness, 40)

\* SESSION_TIMES "09:00,18:00", as minutes of the day.
SessionTimes == {9 * 60, 18 * 60}

Stats == {"happiness", "hunger", "thirst", "hygiene", "energy", "mood", "health"}

\* _clamp(v, 0, 100)
clamp(v) == Max2(0, Min2(100, v))

\* The row ensure_pet inserts: the column defaults of table pets.
NewPet ==
    [happiness |-> 80, hunger |-> 80, thirst |-> 80, hygiene |-> 80, energy |-> 80,
     mood |-> 80, health |-> 80, action_tokens |-> 0, missed_sessions_streak |-> 0,
     resurrect_streak |-> 0, is_dead |-> FALSE, last_checked_at |-> NoneTs]

\* The slots of [start, end]: the start is not excluded.
session_slots_betweenClosed(start, end) ==
    {t \in {d * OneDay + m : d \in Day(start)..Day(end), m \in SessionTimes} :
        start <= t /\ t <= end}

\* _session_slots_between: the scheduled session times in (start, end].
session_slots_between(start, end) ==
    {t \in {d * OneDay + m : d \in Day(start)..Day(end), m \in SessionTimes} :
        start < t /\ t <= end}

\* apply_decay(user_id, now_utc)
apply_decay(p, now_utc) ==
    LET last_checked == IF p.last_checked_at = NoneTs THEN now_utc
                        ELSE p.last_checked_at
        n == Cardinality(session_slots_between(last_checked, now_utc))
        missed_streak == p.missed_sessions_streak + n
        loss == [happiness |-> 10, hunger |-> 12, thirst |-> 12, hygiene |-> 8,
                 energy |-> 10, mood |-> 8, health |-> 6]
        worn == [k \in Stats |-> p[k] - n * loss[k]]
        dead == n > 0 /\ missed_streak >= DeadAt
        sick == n > 0 /\ ~dead /\ missed_streak >= SickAt
        after(k) == IF dead /\ k \in {"happiness", "health"} THEN 0
                    ELSE IF sick /\ k = "health" THEN Min2(worn[k], SickHealth)
                    ELSE IF sick /\ k = "happiness" THEN Min2(worn[k], SickHappiness)
                    ELSE worn[k]
    IN  IF p.is_dead THEN [p EXCEPT !.last_checked_at = now_utc]
        ELSE [k \in DOMAIN p |->
                 IF k \in Stats THEN clamp(after(k))
                 ELSE IF k = "missed_sessions_streak" THEN missed_streak
                 ELSE IF k = "is_dead" THEN dead
                 ELSE IF k = "action_tokens" THEN IF dead THEN 0 ELSE p.action_tokens
                 ELSE IF k = "resurrect_streak" THEN IF dead THEN 0 ELSE p.resurrect_streak
                 ELSE now_utc]

\* add_action_token without the test against max_tokens.
add_action_tokenNoCap(p) == [p EXCEPT !.action_tokens = @ + 1]

\* add_action_token(user_id, max_tokens=2)
add_action_token(p) ==
    IF p.action_tokens >= MaxTokens THEN p
    ELSE [p EXCEPT !.action_tokens = @ + 1]

\* perform_action(user_id, action): the (ok, row) it leaves.
perform_action(p, action) ==
    LET gain == [feed |-> <<"hunger", 35, 5>>, water |-> <<"thirst", 35, 5>>,
                 wash |-> <<"hygiene", 35, 4>>, sleep |-> <<"energy", 40, 3>>,
                 play |-> <<"mood", 40, 6>>, heal |-> <<"health", 35, 3>>]
    IN  IF p.is_dead \/ p.action_tokens <= 0 \/ action \notin DOMAIN gain
        THEN [ok |-> FALSE, row |-> p]
        ELSE LET g == gain[action]
                 q == [p EXCEPT ![g[1]] = @ + g[2]]
             IN  [ok |-> TRUE,
                  row |-> [k \in DOMAIN p |->
                             IF k = "action_tokens" THEN p.action_tokens - 1
                             ELSE IF k = "happiness" THEN clamp(q.happiness + g[3])
                             ELSE IF k \in Stats THEN clamp(q[k])
                             ELSE p[k]]]

\* PetService.revive(user_id)
PetService_revive(p) ==
    [k \in DOMAIN p |->
        IF k \in Stats THEN 60
        ELSE IF k = "is_dead" THEN FALSE
        ELSE IF k = "last_checked_at" THEN p.last_checked_at
        ELSE 0]

\* on_session_completed that leaves last_checked_at as it was.
on_session_completedNoCheck(p, now_utc) ==
    LET gain == [happiness |-> 10, hunger |-> 4, thirst |-> 4, hygiene |-> 2,
                 energy |-> 3, mood |-> 5, health |-> 3]
    IN  [k \in DOMAIN p |->
            IF k \in Stats THEN clamp(p[k] + gain[k])
            ELSE IF k \in {"missed_sessions_streak", "resurrect_streak"} THEN 0
            ELSE IF k = "is_dead" THEN FALSE
            ELSE p[k]]

\* on_session_completed(user_id, now_utc); last_session_completed_at, which
\* no method reads, gets the same time as last_checked_at and is left out.
on_session_completed(p, now_utc) ==
    LET gain == [happiness |-> 10, hunger |-> 4, thirst |-> 4, hygiene |-> 2,
                 energy |-> 3, mood |-> 5, health |-> 3]
    IN  [k \in DOMAIN p |->
            IF k \in Stats THEN clamp(p[k] + gain[k])
            ELSE IF k = "last_checked_at" THEN now_utc
            ELSE IF k \in {"missed_sessions_streak", "resurrect_streak"} THEN 0
            ELSE IF k = "is_dead" THEN FALSE
            ELSE p[k]]

\* on_correct_attempt(user_id)
on_correct_attempt(p) ==
    [p EXCEPT !.happiness = clamp(@ + 2), !.mood = clamp(@ + 1)]

\* on_wrong_attempt(user_id)
on_wrong_attempt(p) ==
    [p EXCEPT !.happiness = clamp(@ - 3), !.mood = clamp(@ - 2)]

\* on_correct(user_id): nothing is written for a dead pet.
on_correct(p) ==
    IF p.is_dead THEN p
    ELSE [p EXCEPT !.happiness = clamp(@ + 1), !.mood = clamp(@ + 1)]

-----------------------------------------------------------------------------
(* scheduler/scheduler.py: ReminderScheduler *)

NoEvent == [name |-> <<>>, when |-> NoneTs, kind |-> "none"]

\* _next_event(now) for session times given as <<hour, minute>>: a reminder and
\* a deadline per session time, in that order; min() returns the first of the
\* events with the least time.
next_event(session_times, reminder_delta, deadline_delta, t) ==
    LET session_dt(i) ==
            LET today == Day(t) * OneDay + session_times[i][1] * 60 + session_times[i][2]
            IN  IF today <= t THEN today + OneDay ELSE today
        events == [j \in 1..(2 * Len(session_times)) |->
                      LET i == (j + 1) \div 2
                      IN  IF j % 2 = 1
                          THEN [name |-> session_times[i],
                                when |-> session_dt(i) - reminder_delta,
                                kind |-> "reminder"]
                          ELSE [name |-> session_times[i],
                                when |-> session_dt(i) + deadline_delta,
                                kind |-> "deadline"]]
    IN  IF events = <<>> THEN NoEvent
        ELSE LET first == CHOOSE j \in DOMAIN events :
                             /\ \A k \in DOMAIN events : events[j].when <= events[k].when
                             /\ \A k \in 1..(j - 1) : events[k].when > events[j].when
             IN  events[first]

\* The continuous pet has its fresh row and no call has been made; no
\* scheduler has been started.
NoAux ==
    /\ petRow = NewPet
    /\ petLog = [op |-> "none", n |-> 0]
    /\ sched = [pc |-> "stopped"]

-----------------------------------------------------------------------------
(* The session tables and their repositories.  The handlers below thread a   *)
(* store S, the tables a handler reads and writes, through the repository    *)
(* calls in the order the code makes them.                                   *)

DeadlineMinutes == 240      \* start_or_continue: deadline_minutes=240
RevivalDeadline == 180      \* start_revival: deadline_minutes=180
SessionSize == 10           \* start_or_continue: total_items=10
RevivalSize == 20           \* start_revival: total_items=20
FreecareSize == 2           \* _pick_freecare_two returns two ids
ForceAdvanceAt == 5         \* handle_voice: attempts >= 5
RecentBlock == 30           \* _pick_freecare_two: timedelta(minutes=30)
BonusMaxWrong == 2          \* _finalize_session: wrong_total <= 2
user_current_level == 1     \* users.current_level, never written by a handler

\* level1.csv for the session machine: two items, no sublevel tags.
CatalogSession == (1 :> <<Item("a1", ""), Item("a2", "")>>)

\* A level file that has a header and no rows, and no other level.
CatalogNoItems == (1 :> <<>>)

NoCare == [active_need |-> "", need_level |-> 0, options |-> {}]

NoHandler == [op |-> "none"]

Store ==
    [sessions |-> sessions, session_state |-> session_state,
     order |-> updated_order, attempts |-> attempts, progress |-> progress,
     pet |-> pet, ip |-> item_progress]

\* No session has been started yet.
NoSessions ==
    /\ sessions = <<>>
    /\ session_state = <<>>
    /\ updated_order = <<>>
    /\ attempts = <<>>
    /\ progress = [l \in {1, 2} |-> 0]
    /\ pet = InitialPet
    /\ lastHandler = NoHandler

\* updated_at=CURRENT_TIMESTAMP: the written row becomes the most recent one.
\* The handlers of one learner run at least a clock second apart, so no two
\* rows carry the same updated_at.
Touch(S, sid) ==
    [S EXCEPT !.order = <<sid>> \o SelectSeq(S.order, LAMBDA x : x # sid)]

\* SessionRepository.create_session followed by update_status(id, "active").
create_session(S, level, due_at) ==
    [S EXCEPT !.sessions = Append(@, [status |-> "active", due_at |-> due_at,
                                      level |-> level]),
              !.attempts = Append(@, [total |-> 0, correct |-> 0])]

update_status(S, sid, status) == [S EXCEPT !.sessions[sid].status = status]

\* SessionStateRepository.create_state with the values every start_* passes.
create_state(S, sid, level, deck, mode) ==
    Touch([S EXCEPT !.session_state = (sid :>
               [level |-> level, deck |-> deck, item_index |-> 0,
                total_items |-> Len(deck), blocked |-> 0, correct_count |-> 0,
                reward_stage |-> 0, mode |-> mode, current_attempts |-> 0,
                wrong_total |-> 0, care_stage |-> 0, awaiting_care |-> 0,
                care_json |-> NoCare]) @@ @], sid)

HasState(S, sid) == sid \in DOMAIN S.session_state

update_index(S, sid, item_index) ==
    IF HasState(S, sid)
    THEN Touch([S EXCEPT !.session_state[sid].item_index = item_index], sid)
    ELSE S

update_attempts(S, sid, current_attempts) ==
    IF HasState(S, sid)
    THEN Touch([S EXCEPT !.session_state[sid].current_attempts = current_attempts], sid)
    ELSE S

increment_correct(S, sid) ==
    IF HasState(S, sid)
    THEN Touch([S EXCEPT !.session_state[sid].correct_count = @ + 1], sid)
    ELSE S

increment_wrong_total(S, sid) ==
    IF HasState(S, sid)
    THEN Touch([S EXCEPT !.session_state[sid].wrong_total = @ + 1], sid)
    ELSE S

set_blocked(S, sid, blocked) ==
    IF HasState(S, sid)
    THEN Touch([S EXCEPT !.session_state[sid].blocked = blocked], sid)
    ELSE S

\* Mutant: awaiting_care=0 is taken for "not given" and is not written.
set_care_stateZeroIsNone(S, sid, awaiting_care, care_stage, care_json) ==
    IF HasState(S, sid)
    THEN Touch([S EXCEPT !.session_state[sid] =
                   [@ EXCEPT !.awaiting_care = IF awaiting_care = 0 THEN @ ELSE awaiting_care,
                             !.care_stage = IF care_stage = NoneTs THEN @ ELSE care_stage,
                             !.care_json = IF care_json = NoCare THEN @ ELSE care_json]],
               sid)
    ELSE S

\* set_care_state(session_id, awaiting_care, care_stage, care_json): care_stage
\* and care_json are written only when they are not None.
set_care_state(S, sid, awaiting_care, care_stage, care_json) ==
    IF HasState(S, sid)
    THEN Touch([S EXCEPT !.session_state[sid] =
                   [@ EXCEPT !.awaiting_care = awaiting_care,
                             !.care_stage = IF care_stage = NoneTs THEN @ ELSE care_stage,
                             !.care_json = IF care_json = NoCare THEN @ ELSE care_json]],
               sid)
    ELSE S

delete_state(S, sid) ==
    [S EXCEPT !.session_state = [x \in DOMAIN @ \ {sid} |-> @[x]],
              !.order = SelectSeq(@, LAMBDA x : x # sid)]

\* The rows get_active_state_for_user can return: unblocked, session pending
\* or active.
ActiveIds(S) ==
    {sid \in DOMAIN S.session_state :
        /\ S.session_state[sid].blocked = 0
        /\ S.sessions[sid].status \in {"pending", "active"}}

\* get_active_session: ORDER BY updated_at DESC LIMIT 1; 0 stands for None.
get_active_session(S) ==
    LET act == SelectSeq(S.order, LAMBDA x : x \in ActiveIds(S))
    IN  IF act = <<>> THEN 0 ELSE Head(act)

\* Mutant: only correct attempts reach the log.
record_attemptCorrectOnly(S, sid, is_correct) ==
    IF is_correct
    THEN [S EXCEPT !.attempts[sid] = [total |-> @.total + 1, correct |-> @.correct + 1]]
    ELSE S

\* AttemptRepository.log_attempt, as count_for_session reads it back.
record_attempt(S, sid, is_correct) ==
    [S EXCEPT !.attempts[sid] = [total |-> @.total + 1,
                                 correct |-> @.correct + (IF is_correct THEN 1 ELSE 0)]]

-----------------------------------------------------------------------------
(* SessionService *)

\* Mutant: the advance keeps the attempt counter.
advance_itemKeepAttempts(S, sid) ==
    IF ~HasState(S, sid) THEN S
    ELSE update_index(S, sid, S.session_state[sid].item_index + 1)

\* advance_item: the index is re-read from the row; the attempts are reset.
advance_item(S, sid) ==
    IF ~HasState(S, sid) THEN S
    ELSE update_attempts(update_index(S, sid, S.session_state[sid].item_index + 1),
                         sid, 0)

\* Mutant: the level progress is overwritten with this session's count.
complete_sessionOverwrite(S, sid, level, correct, total) ==
    LET status == IF total # 0 /\ correct = total THEN "passed" ELSE "done"
        S1 == update_status(S, sid, status)
    IN  [S1 EXCEPT !.progress[level] = correct]

\* complete_session: "passed" if total and correct == total, else "done";
\* the level progress becomes max(current, correct).
complete_session(S, sid, level, correct, total) ==
    LET status == IF total # 0 /\ correct = total THEN "passed" ELSE "done"
        S1 == update_status(S, sid, status)
    IN  [S1 EXCEPT !.progress[level] = Max2(@, correct)]

\* finish_if_needed
finish_if_needed(S, sid, level) ==
    IF ~HasState(S, sid) THEN S
    ELSE IF S.session_state[sid].item_index < S.session_state[sid].total_items THEN S
    ELSE delete_state(complete_session(S, sid, level, S.attempts[sid].correct,
                                       S.attempts[sid].total),
                      sid)

\* Mutant: a missing row is reported as "not finished".
finish_if_needed_resultMissingRow(S, sid) ==
    /\ HasState(S, sid)
    /\ ~(S.session_state[sid].item_index < S.session_state[sid].total_items)

\* What finish_if_needed returns: True for a missing row or a finished
\* session, False while cards are left.
finish_if_needed_result(S, sid) ==
    IF ~HasState(S, sid) THEN TRUE
    ELSE ~(S.session_state[sid].item_index < S.session_state[sid].total_items)

\* The decks build_deck can return for this store.
Decks(S, now_utc, level, total_items) ==
    {r.deck : r \in build_deck(S.ip, now_utc, catalog, level, total_items)}

\* start_session(user_id, level, deadline_minutes, total_items)
start_session(S, now_utc, level, deadline_minutes, total_items) ==
    LET S1 == create_session(S, level, now_utc + deadline_minutes)
        sid == Len(S1.sessions)
    IN  {create_state(S1, sid, level, deck, "normal") :
            deck \in Decks(S, now_utc, level, total_items)}

\* start_revival(user_id, level)
start_revival(S, now_utc, level) ==
    LET S1 == create_session(S, level, now_utc + RevivalDeadline)
        sid == Len(S1.sessions)
    IN  {create_state(S1, sid, level, deck, "revival") :
            deck \in Decks(S, now_utc, level, RevivalSize)}

\* start_freecare_gate as on_care_more calls it, with the picked content ids:
\* a session without deadline whose deck is those ids.
start_freecare_gate(S, level, content_ids) ==
    LET S1 == create_session(S, level, NoneTs)
        sid == Len(S1.sessions)
    IN  create_state(S1, sid, level,
                     [i \in 1..Len(content_ids) |-> DeckItem(level, content_ids[i])],
                     "freecare")

-----------------------------------------------------------------------------
(* routers/voice.py *)

\* _schedule_care drawing the decoys from every other need, plausible or not.
CarePayloadsAnyDecoy(p) ==
    LET max_level == CHOOSE v \in {p.levels[n] : n \in NeedSet} :
                        \A n \in NeedSet : p.levels[n] <= v
        max_needs == {n \in NeedSet : p.levels[n] = max_level}
    IN  {[active_need |-> a, need_level |-> p.levels[a],
          options |-> {need_to_action(a), need_to_action(d[1]), need_to_action(d[2])}] :
            <<a, d>> \in {<<a, d>> \in max_needs \X (NeedSet \X NeedSet) :
                             /\ d[1] # a
                             /\ d[2] # a
                             /\ d[1] # d[2]}}

\* _schedule_care: the payloads random.choice and random.shuffle can produce,
\* each stored with awaiting_care=1 and care_stage=state.care_stage + 1.
CarePayloads(p) ==
    LET max_level == CHOOSE v \in {p.levels[n] : n \in NeedSet} :
                        \A n \in NeedSet : p.levels[n] <= v
        max_needs == {n \in NeedSet : p.levels[n] = max_level}
        plausible(a) == {k \in NeedSet : k # a /\ p.levels[k] > 1}
        decoy_sources(a) == IF Cardinality(plausible(a)) < 2
                            THEN NeedSet \ {a} ELSE plausible(a)
    IN  {[active_need |-> a, need_level |-> p.levels[a],
          options |-> {need_to_action(a), need_to_action(d[1]), need_to_action(d[2])}] :
            <<a, d>> \in {<<a, d>> \in max_needs \X (NeedSet \X NeedSet) :
                             /\ d[1] \in decoy_sources(a)
                             /\ d[2] \in decoy_sources(a)
                             /\ d[1] # d[2]}}

schedule_care(S, now_utc, sid, care_stage) ==
    LET S1 == [S EXCEPT !.pet = rollover_if_needed(@, now_utc)]
    IN  {set_care_state(S1, sid, 1, care_stage + 1, c) : c \in CarePayloads(S1.pet)}

\* _finalize_session counting every finalized session as a session of the day.
finalize_sessionCountsAll(S, now_utc, sid, level, mode, wrong_total) ==
    LET S1 == finish_if_needed(S, sid, level)
        p1 == IF mode = "normal"
              THEN LET q == increment_sessions_today(S1.pet)
                   IN  IF wrong_total <= BonusMaxWrong THEN apply_bonus(q) ELSE q
              ELSE IF mode = "revival" THEN revive(increment_sessions_today(S1.pet))
              ELSE increment_sessions_today(S1.pet)
    IN  [S1 EXCEPT !.pet = rollover_if_needed(p1, now_utc)]

\* _finalize_session giving the bonus to every finalized normal session.
finalize_sessionBonusAlways(S, now_utc, sid, level, mode, wrong_total) ==
    LET S1 == finish_if_needed(S, sid, level)
        p1 == IF mode = "normal"
              THEN LET q == increment_sessions_today(S1.pet)
                   IN  apply_bonus(q)
              ELSE IF mode = "revival" THEN revive(S1.pet)
              ELSE S1.pet
    IN  [S1 EXCEPT !.pet = rollover_if_needed(p1, now_utc)]

\* _finalize_session(message, state, wrong_total)
finalize_session(S, now_utc, sid, level, mode, wrong_total) ==
    LET S1 == finish_if_needed(S, sid, level)
        p1 == IF mode = "normal"
              THEN LET q == increment_sessions_today(S1.pet)
                   IN  IF wrong_total <= BonusMaxWrong THEN apply_bonus(q) ELSE q
              ELSE IF mode = "revival" THEN revive(S1.pet)
              ELSE S1.pet
    IN  [S1 EXCEPT !.pet = rollover_if_needed(p1, now_utc)]

\* _pick_freecare_two: the first two items of the level that are not finished
\* and are due or not seen within the last 30 minutes; <<>> stands for None.
pick_freecare_two(S, now_utc, level) ==
    LET items == get_level_items(catalog, level)
        meta(cid) == RowOf(S.ip, <<level, cid>>)
        has(cid) == <<level, cid>> \in DOMAIN S.ip
        is_due(cid) == has(cid) /\ meta(cid).next_due_at # NoneTs
                                /\ meta(cid).next_due_at <= now_utc
        is_recent(cid) == has(cid) /\ meta(cid).last_seen_at # NoneTs
                                   /\ now_utc - meta(cid).last_seen_at < RecentBlock
        ok == SelectSeq(items, LAMBDA it :
                  /\ ~is_finished(S.ip, level, it.id)
                  /\ ~(~is_due(it.id) /\ is_recent(it.id)))
    IN  IF Len(ok) >= FreecareSize
        THEN [i \in 1..FreecareSize |-> ok[i].id]
        ELSE <<>>

\* What a handler run leaves behind: the store and the history record.
Run(S, h) == [S |-> S, h |-> h]

\* Mutant: only the gate after the fifth item exists.
after_attemptOneGate(S, now_utc, h) ==
    LET uid == get_active_session(S)
    IN  IF uid = 0 THEN {Run(S, h)}
        ELSE LET updated_state == S.session_state[uid]
                 processed == updated_state.item_index
             IN  IF \/ /\ updated_state.mode = "freecare"
                       /\ processed >= updated_state.total_items
                       /\ updated_state.care_stage < 1
                    \/ /\ updated_state.mode = "normal"
                       /\ processed = 5
                       /\ updated_state.care_stage < 1
                 THEN {Run(T, [h EXCEPT !.gate = uid]) :
                          T \in schedule_care(S, now_utc, uid, updated_state.care_stage)}
                 ELSE IF updated_state.item_index >= updated_state.total_items
                 THEN {Run(finalize_session(S, now_utc, uid, updated_state.level,
                                            updated_state.mode, updated_state.wrong_total),
                           [h EXCEPT !.finalized = uid, !.final = updated_state])}
                 ELSE {Run(S, [h EXCEPT !.sent = <<uid, updated_state.item_index>>])}

\* handle_voice from line 321 on: the state is read again, a care gate is
\* opened if one is due, else the session is finalized or the next task sent.
after_attempt(S, now_utc, h) ==
    LET uid == get_active_session(S)
    IN  IF uid = 0 THEN {Run(S, h)}
        ELSE LET updated_state == S.session_state[uid]
                 processed == updated_state.item_index
             IN  IF \/ /\ updated_state.mode = "freecare"
                       /\ processed >= updated_state.total_items
                       /\ updated_state.care_stage < 1
                    \/ /\ updated_state.mode = "normal"
                       /\ processed \in {5, 10}
                       /\ updated_state.care_stage < (IF processed = 5 THEN 1 ELSE 2)
                 THEN {Run(T, [h EXCEPT !.gate = uid]) :
                          T \in schedule_care(S, now_utc, uid, updated_state.care_stage)}
                 ELSE IF updated_state.item_index >= updated_state.total_items
                 THEN {Run(finalize_session(S, now_utc, uid, updated_state.level,
                                            updated_state.mode, updated_state.wrong_total),
                           [h EXCEPT !.finalized = uid, !.final = updated_state])}
                 ELSE {Run(S, [h EXCEPT !.sent = <<uid, updated_state.item_index>>])}

\* Mutant: a recording is judged while a care choice is pending.
handle_voiceDuringCare(S0, now_utc, ok) ==
    LET sid == get_active_session(S0)
        state == S0.session_state[sid]
        S1 == [S0 EXCEPT !.pet = rollover_if_needed(@, now_utc)]
        h == [op |-> "handle_voice", sid |-> sid, ok |-> ok, outcome |-> "accepted",
              before |-> state, after |-> state, gate |-> 0, finalized |-> 0,
              final |-> state, sent |-> <<0, 0>>]
        rejected(why) == [op |-> "handle_voice", outcome |-> why]
    IN  IF S1.pet.is_dead /\ state.mode # "revival"
        THEN {Run(S1, rejected("pet_dead"))}
        ELSE IF ~(state.item_index < Len(state.deck))
        THEN {Run(S1, rejected("no_card"))}
        ELSE
        LET deck_item == state.deck[state.item_index + 1]
            S2 == record_attempt(S1, sid, ok)
        IN  IF ok
            THEN LET S3 == [S2 EXCEPT !.ip = record_correct(@, Key(deck_item), now_utc)]
                     S4 == advance_item(increment_correct(S3, sid), sid)
                 IN  after_attempt(S4, now_utc,
                                   [h EXCEPT !.after = S4.session_state[sid]])
            ELSE LET S3 == increment_wrong_total(S2, sid)
                     S4 == [S3 EXCEPT !.ip = record_wrong(@, Key(deck_item), now_utc)]
                     attempts_now == state.current_attempts + 1
                 IN  IF attempts_now >= ForceAdvanceAt
                     THEN LET S5 == advance_item(S4, sid)
                          IN  after_attempt(S5, now_utc,
                                  [h EXCEPT !.after = S5.session_state[sid],
                                            !.outcome = "force_advance"])
                     ELSE LET S5 == update_attempts(S4, sid, attempts_now)
                          IN  {Run(S5, [h EXCEPT !.after = S5.session_state[sid],
                                                 !.outcome = "retry",
                                                 !.sent = <<sid, state.item_index>>])}

\* handle_voice for the learner's active session; ok is the verdict of the
\* speech service on the recording.
handle_voice(S0, now_utc, ok) ==
    LET sid == get_active_session(S0)
        state == S0.session_state[sid]
        S1 == [S0 EXCEPT !.pet = rollover_if_needed(@, now_utc)]
        h == [op |-> "handle_voice", sid |-> sid, ok |-> ok, outcome |-> "accepted",
              before |-> state, after |-> state, gate |-> 0, finalized |-> 0,
              final |-> state, sent |-> <<0, 0>>]
        rejected(why) == [op |-> "handle_voice", outcome |-> why]
    IN  IF state.awaiting_care # 0
        THEN {Run(S1, rejected("awaiting_care"))}
        ELSE IF S1.pet.is_dead /\ state.mode # "revival"
        THEN {Run(S1, rejected("pet_dead"))}
        ELSE IF ~(state.item_index < Len(state.deck))
        THEN {Run(S1, rejected("no_card"))}
        ELSE
        LET deck_item == state.deck[state.item_index + 1]
            S2 == record_attempt(S1, sid, ok)
        IN  IF ok
            THEN LET S3 == [S2 EXCEPT !.ip = record_correct(@, Key(deck_item), now_utc)]
                     S4 == advance_item(increment_correct(S3, sid), sid)
                 IN  after_attempt(S4, now_utc,
                                   [h EXCEPT !.after = S4.session_state[sid]])
            ELSE LET S3 == increment_wrong_total(S2, sid)
                     S4 == [S3 EXCEPT !.ip = record_wrong(@, Key(deck_item), now_utc)]
                     attempts_now == state.current_attempts + 1
                 IN  IF attempts_now >= ForceAdvanceAt
                     THEN LET S5 == advance_item(S4, sid)
                          IN  after_attempt(S5, now_utc,
                                  [h EXCEPT !.after = S5.session_state[sid],
                                            !.outcome = "force_advance"])
                     ELSE LET S5 == update_attempts(S4, sid, attempts_now)
                          IN  {Run(S5, [h EXCEPT !.after = S5.session_state[sid],
                                                 !.outcome = "retry",
                                                 !.sent = <<sid, state.item_index>>])}

\* on_care without the test of the action against the stored options.
on_careAnyAction(S0, now_utc, action) ==
    LET sid == get_active_session(S0)
        state == S0.session_state[sid]
        h == [op |-> "on_care", sid |-> sid, action |-> action, outcome |-> "applied",
              finalized |-> 0, final |-> state, sent |-> <<0, 0>>]
        rejected(why) == [op |-> "on_care", outcome |-> why]
    IN  IF state.care_json = NoCare
        THEN {Run(S0, rejected("no_payload"))}
        ELSE
        LET S1 == [S0 EXCEPT !.pet = apply_care_choice(@, action,
                                                       state.care_json.active_need)]
            S2 == set_care_state(S1, sid, 0, NoneTs, NoCare)
            uid == get_active_session(S2)
        IN  IF uid = 0 THEN {Run(S2, h)}
            ELSE LET updated_state == S2.session_state[uid]
                 IN  IF updated_state.item_index >= updated_state.total_items
                     THEN {Run(finalize_session(S2, now_utc, uid, updated_state.level,
                                                updated_state.mode,
                                                updated_state.wrong_total),
                               [h EXCEPT !.finalized = uid, !.final = updated_state])}
                     ELSE {Run(S2, [h EXCEPT !.sent = <<uid, updated_state.item_index>>])}

\* on_care applying the chosen care with the chosen need taken as the active
\* one, whatever the payload stored.
on_careAlwaysActive(S0, now_utc, action) ==
    LET sid == get_active_session(S0)
        state == S0.session_state[sid]
        h == [op |-> "on_care", sid |-> sid, action |-> action, outcome |-> "applied",
              finalized |-> 0, final |-> state, sent |-> <<0, 0>>]
        rejected(why) == [op |-> "on_care", outcome |-> why]
    IN  IF state.care_json = NoCare
        THEN {Run(S0, rejected("no_payload"))}
        ELSE IF action \notin state.care_json.options
        THEN {Run(S0, rejected("not_offered"))}
        ELSE
        LET S1 == [S0 EXCEPT !.pet = apply_care_choice(@, action, ActionNeed(action))]
            S2 == set_care_state(S1, sid, 0, NoneTs, NoCare)
            uid == get_active_session(S2)
        IN  IF uid = 0 THEN {Run(S2, h)}
            ELSE LET updated_state == S2.session_state[uid]
                 IN  IF updated_state.item_index >= updated_state.total_items
                     THEN {Run(finalize_session(S2, now_utc, uid, updated_state.level,
                                                updated_state.mode,
                                                updated_state.wrong_total),
                               [h EXCEPT !.finalized = uid, !.final = updated_state])}
                     ELSE {Run(S2, [h EXCEPT !.sent = <<uid, updated_state.item_index>>])}

\* on_care for the callback data "care:<action>".
on_care(S0, now_utc, action) ==
    LET sid == get_active_session(S0)
        state == S0.session_state[sid]
        h == [op |-> "on_care", sid |-> sid, action |-> action, outcome |-> "applied",
              finalized |-> 0, final |-> state, sent |-> <<0, 0>>]
        rejected(why) == [op |-> "on_care", outcome |-> why]
    IN  IF state.care_json = NoCare
        THEN {Run(S0, rejected("no_payload"))}
        ELSE IF action \notin state.care_json.options
        THEN {Run(S0, rejected("not_offered"))}
        ELSE
        LET S1 == [S0 EXCEPT !.pet = apply_care_choice(@, action,
                                                       state.care_json.active_need)]
            S2 == set_care_state(S1, sid, 0, NoneTs, NoCare)
            uid == get_active_session(S2)
        IN  IF uid = 0 THEN {Run(S2, h)}
            ELSE LET updated_state == S2.session_state[uid]
                 IN  IF updated_state.item_index >= updated_state.total_items
                     THEN {Run(finalize_session(S2, now_utc, uid, updated_state.level,
                                                updated_state.mode,
                                                updated_state.wrong_total),
                               [h EXCEPT !.finalized = uid, !.final = updated_state])}
                     ELSE {Run(S2, [h EXCEPT !.sent = <<uid, updated_state.item_index>>])}

\* on_care_more: rejected only while the active session is a normal one.
on_care_more(S0, now_utc) ==
    LET active == get_active_session(S0)
        h == [op |-> "on_care_more", outcome |-> "started"]
        ids == pick_freecare_two(S0, now_utc, user_current_level)
    IN  IF active # 0 /\ S0.session_state[active].mode = "normal"
        THEN {Run(S0, [h EXCEPT !.outcome = "session_running"])}
        ELSE IF ids = <<>>
        THEN {Run(S0, [h EXCEPT !.outcome = "no_words"])}
        ELSE {Run(start_freecare_gate(S0, user_current_level, ids), h)}

\* cmd_stop: the active session is completed with zero correct answers.
cmd_stop(S0, now_utc) ==
    LET sid == get_active_session(S0)
        state == S0.session_state[sid]
        S1 == complete_session(S0, sid, state.level, 0, state.total_items)
    IN  {Run([S1 EXCEPT !.pet = rollover_if_needed(@, now_utc)],
             [op |-> "cmd_stop", sid |-> sid])}

-----------------------------------------------------------------------------
(* routers/session.py and the deadline callback of telegram_main.py *)

\* start_or_continue(ctx, message, level): level is the /session argument, or
\* the learner's current level for the practice button.
start_or_continue(S0, now_utc, level, op) ==
    LET S1 == [S0 EXCEPT !.pet = rollover_if_needed(@, now_utc)]
        sid == get_active_session(S1)
        h == [op |-> op, outcome |-> "resumed", sent |-> <<0, 0>>]
        shown(T) == LET a == get_active_session(T)
                    IN  IF a = 0 THEN <<0, 0>>
                        ELSE IF T.session_state[a].item_index
                                    >= Len(T.session_state[a].deck)
                        THEN <<0, 0>>
                        ELSE <<a, T.session_state[a].item_index>>
    IN  IF S1.pet.is_dead
        THEN IF sid = 0 \/ S1.session_state[sid].mode # "revival"
             THEN {Run(T, [h EXCEPT !.outcome = "revival_started", !.sent = shown(T)]) :
                      T \in start_revival(S1, now_utc, level)}
             ELSE {Run(S1, [h EXCEPT !.sent = shown(S1)])}
        ELSE IF sid # 0
        THEN IF S1.session_state[sid].mode = "normal"
                /\ S1.session_state[sid].awaiting_care # 0
             THEN {Run(S1, [h EXCEPT !.outcome = "care_keyboard"])}
             ELSE {Run(S1, [h EXCEPT !.sent = shown(S1)])}
        ELSE {Run(T, [h EXCEPT !.outcome = IF T.session_state[Len(T.sessions)].total_items = 0
                                           THEN "no_content" ELSE "session_started",
                               !.sent = shown(T)]) :
                 T \in start_session(S1, now_utc, level, DeadlineMinutes, SessionSize)}

\* cmd_next_session: the active session is completed with its correct_count,
\* then start_or_continue runs for the learner's current level.
cmd_next_session(S0, now_utc) ==
    LET sid == get_active_session(S0)
        S1 == IF sid = 0 THEN S0
              ELSE LET state == S0.session_state[sid]
                   IN  complete_session(S0, sid, state.level, state.correct_count,
                                        state.total_items)
    IN  start_or_continue(S1, now_utc, user_current_level, "cmd_next_session")

\* SessionRepository.get_active_sessions(now)
get_active_sessions(S, when) ==
    {sid \in 1..Len(S.sessions) :
        /\ S.sessions[sid].status \in {"pending", "active"}
        /\ (S.sessions[sid].due_at = NoneTs \/ S.sessions[sid].due_at >= when)}

\* on_deadline(label, when): every selected session that still has a state row
\* is blocked.
RECURSIVE block_all(_, _)
block_all(S, ids) ==
    IF ids = {} THEN S
    ELSE LET sid == CHOOSE x \in ids : \A y \in ids : x <= y
         IN  block_all(set_blocked(update_status(S, sid, "blocked"), sid, 1),
                       ids \ {sid})

on_deadline(S0, when) ==
    LET hit == {sid \in get_active_sessions(S0, when) : HasState(S0, sid)}
    IN  {Run(block_all(S0, hit), [op |-> "on_deadline", blocked |-> hit])}

-----------------------------------------------------------------------------
(* SpecItems: the item tracker driven by arbitrary calls *)

TrackedKeys == {<<1, "mono1">>, <<2, "b1">>}

NoOp == [kind |-> "none", key |-> <<0, "">>, existed |-> FALSE,
         pre |-> DefaultRow, at |-> 0]

NoCall == [called |-> FALSE, level |-> 0, total |-> 0,
           deck |-> <<>>, nDue |-> 0, nCur |-> 0, nOther |-> 0]

NoCalls == [k \in AllKeys |-> [correct |-> 0, wrong |-> 0]]

InitItems ==
    /\ now = 0
    /\ ticks = 0
    /\ item_progress = <<>>
    /\ calls = NoCalls
    /\ lastOp = NoOp
    /\ catalog = CatalogMonoDi
    /\ deckCall = NoCall
    /\ NoSessions
    /\ NoAux

\* The clock advances between two calls.
Tick(d) ==
    /\ ticks < MaxTicks
    /\ now' = now + d
    /\ ticks' = ticks + 1
    /\ UNCHANGED <<item_progress, calls, lastOp, catalog, deckCall>>
    /\ UNCHANGED sessionVars
    /\ UNCHANGED auxVars

CallRecordCorrect(k) ==
    /\ calls[k].correct + calls[k].wrong < MaxCalls
    /\ item_progress' = record_correct(item_progress, k, now)
    /\ calls' = [calls EXCEPT ![k].correct = @ + 1]
    /\ lastOp' = [kind |-> "correct", key |-> k, existed |-> k \in DOMAIN item_progress,
                  pre |-> RowOf(item_progress, k), at |-> now]
    /\ UNCHANGED <<now, ticks, catalog, deckCall>>
    /\ UNCHANGED sessionVars
    /\ UNCHANGED auxVars

CallRecordWrong(k) ==
    /\ calls[k].correct + calls[k].wrong < MaxCalls
    /\ item_progress' = record_wrong(item_progress, k, now)
    /\ calls' = [calls EXCEPT ![k].wrong = @ + 1]
    /\ lastOp' = [kind |-> "wrong", key |-> k, existed |-> k \in DOMAIN item_progress,
                  pre |-> RowOf(item_progress, k), at |-> now]
    /\ UNCHANGED <<now, ticks, catalog, deckCall>>
    /\ UNCHANGED sessionVars
    /\ UNCHANGED auxVars

NextItems ==
    \/ \E d \in {TenMinutes, TwoDays} : Tick(d)
    \/ \E k \in TrackedKeys : CallRecordCorrect(k)
    \/ \E k \in TrackedKeys : CallRecordWrong(k)

SpecItems == InitItems /\ [][NextItems]_vars

\* The (count, stage, due) combinations a stored row can have.
ReachableRowShape ==
    \A k \in DOMAIN item_progress :
        LET r == item_progress[k]
        IN  /\ <<r.learn_correct_count, r.review_stage>> \in
                   {<<0, 0>>, <<1, 0>>, <<2, 1>>, <<2, 2>>, <<2, 3>>}
            /\ (r.review_stage = 0 => r.next_due_at = NoneTs)
            /\ (r.review_stage \in {1, 2} => r.next_due_at # NoneTs)

-----------------------------------------------------------------------------
(* Claims about the item tracker, checked under SpecItems *)

\* C1: record_correct advances the stored (learn_correct_count, review_stage) by
\* exactly one step: (0,0) -> (1,0) with no due time; (1,0) -> (2,1) due in 10
\* minutes; stage 1 -> stage 2 due in 2 days; stage 2 -> stage 3 with no due
\* time; stage 3 stays stage 3 with no due time.  A missing row counts as (0,0).
\* So four correct answers in a row on a fresh item end at stage 3, not due.
C1_RecordCorrectStep ==
    /\ lastOp.kind = "correct" =>
        LET pre == lastOp.pre
            r == RowOf(item_progress, lastOp.key)
            at == lastOp.at
        IN  /\ lastOp.key \in DOMAIN item_progress
            /\ (~lastOp.existed =>
                    /\ r.learn_correct_count = 1
                    /\ r.review_stage = 0
                    /\ r.next_due_at = NoneTs)
            /\ (pre.review_stage = 0 /\ pre.learn_correct_count = 0 =>
                    /\ r.learn_correct_count = 1
                    /\ r.review_stage = 0
                    /\ r.next_due_at = NoneTs)
            /\ (pre.review_stage = 0 /\ pre.learn_correct_count = 1 =>
                    /\ r.learn_correct_count = 2
                    /\ r.review_stage = 1
                    /\ r.next_due_at = at + 10)
            /\ (pre.review_stage = 1 =>
                    r.review_stage = 2 /\ r.next_due_at = at + 2 * 24 * 60)
            /\ (pre.review_stage = 2 =>
                    r.review_stage = 3 /\ r.next_due_at = NoneTs)
            /\ (pre.review_stage = 3 =>
                    r.review_stage = 3 /\ r.next_due_at = NoneTs)
            /\ \/ pre.review_stage = 0 /\ pre.learn_correct_count \in {0, 1}
               \/ pre.review_stage \in {1, 2, 3}
    /\ \A k \in TrackedKeys :
        calls[k].correct = 4 /\ calls[k].wrong = 0 =>
            /\ RowOf(item_progress, k).review_stage = 3
            /\ RowOf(item_progress, k).next_due_at = NoneTs

\* C1 witness: the fourth correct answer in a row on a fresh item was recorded.
C1_Witness ==
    /\ lastOp.kind = "correct"
    /\ calls[lastOp.key].correct = 4
    /\ calls[lastOp.key].wrong = 0
    /\ lastOp.pre.review_stage = 2
    /\ lastOp.at > 0

\* C2: over any sequence of record_correct / record_wrong calls, no item's
\* review_stage and no item's learn_correct_count ever decreases.
C2_MonotoneMastery ==
    [][\A k \in AllKeys :
          /\ RowOf(item_progress', k).review_stage >= RowOf(item_progress, k).review_stage
          /\ RowOf(item_progress', k).learn_correct_count
                >= RowOf(item_progress, k).learn_correct_count]_vars

\* C2 witness: a wrong answer was recorded on an item in review and a correct
\* answer on another item before it.
C2_Witness ==
    /\ lastOp.kind = "wrong"
    /\ lastOp.pre.review_stage = 2
    /\ RowOf(item_progress, lastOp.key).review_stage = 2
    /\ \E k \in TrackedKeys \ {lastOp.key} : calls[k].correct >= 1

\* C3: record_wrong changes neither learn_correct_count nor review_stage; it
\* sets next_due_at to now + 10 minutes when review_stage >= 1 and leaves it
\* null when review_stage = 0; it creates the row with defaults if absent.
C3_RecordWrongFrame ==
    lastOp.kind = "wrong" =>
        LET pre == lastOp.pre
            r == RowOf(item_progress, lastOp.key)
        IN  /\ lastOp.key \in DOMAIN item_progress
            /\ r.learn_correct_count = pre.learn_correct_count
            /\ r.review_stage = pre.review_stage
            /\ (pre.review_stage >= 1 => r.next_due_at = lastOp.at + 10)
            /\ (pre.review_stage = 0 =>
                    pre.next_due_at = NoneTs /\ r.next_due_at = NoneTs)
            /\ (~lastOp.existed =>
                    /\ r.learn_correct_count = 0
                    /\ r.review_stage = 0
                    /\ r.next_due_at = NoneTs)

\* C3 witness: a wrong answer between the first and the second correct answer,
\* and one on an item already in review.
C3_Witness ==
    /\ lastOp.kind = "wrong"
    /\ lastOp.pre.review_stage = 1
    /\ \E k \in TrackedKeys :
          /\ calls[k] = [correct |-> 1, wrong |-> 1]
          /\ RowOf(item_progress, k).learn_correct_count = 1

-----------------------------------------------------------------------------
(* SpecDeck: build_deck applied to every catalog and progress snapshot *)

\* The time of the build_deck call.
BuildNow == TwoDays + 12 * TenMinutes

ShapeNames ==
    {"absent", "learning", "dueEarly", "dueMid", "dueLate", "scheduled", "mastered"}

\* One stored row per shape; each is a row SpecItems reaches (ReachableRowShape).
\*   learning   one correct answer at 0
\*   dueEarly   second correct answer at 0: due at 10
\*   dueMid     mastered, then a wrong answer at 10: due at 20
\*   dueLate    third correct answer at 10: due at 10 + 2 days
\*   scheduled  second correct answer at BuildNow: due 10 minutes later
\*   mastered   fourth correct answer at 10
ShapeRow(name) ==
    CASE name = "learning" ->
            [learn_correct_count |-> 1, review_stage |-> 0,
             next_due_at |-> NoneTs, last_seen_at |-> 0]
      [] name = "dueEarly" ->
            [learn_correct_count |-> 2, review_stage |-> 1,
             next_due_at |-> TenMinutes, last_seen_at |-> 0]
      [] name = "dueMid" ->
            [learn_correct_count |-> 2, review_stage |-> 3,
             next_due_at |-> 2 * TenMinutes, last_seen_at |-> TenMinutes]
      [] name = "dueLate" ->
            [learn_correct_count |-> 2, review_stage |-> 2,
             next_due_at |-> TenMinutes + TwoDays, last_seen_at |-> TenMinutes]
      [] name = "scheduled" ->
            [learn_correct_count |-> 2, review_stage |-> 1,
             next_due_at |-> BuildNow + TenMinutes, last_seen_at |-> BuildNow]
      [] name = "mastered" ->
            [learn_correct_count |-> 2, review_stage |-> 3,
             next_due_at |-> NoneTs, last_seen_at |-> TenMinutes]

InitDeck ==
    /\ now = BuildNow
    /\ ticks = 0
    /\ calls = NoCalls
    /\ lastOp = NoOp
    /\ catalog \in Catalogs
    /\ \E f \in [CatalogKeys(catalog) -> ShapeNames] :
          item_progress = [k \in {x \in CatalogKeys(catalog) : f[x] # "absent"} |->
                              ShapeRow(f[k])]
    /\ deckCall = NoCall
    /\ NoSessions
    /\ NoAux

\* One call build_deck(user, current_level, total_items).
CallBuildDeck(current_level, total_items) ==
    /\ ~deckCall.called
    /\ \E r \in build_deck(item_progress, now, catalog, current_level, total_items) :
          deckCall' = [called |-> TRUE, level |-> current_level, total |-> total_items,
                       deck |-> r.deck, nDue |-> r.nDue, nCur |-> r.nCur,
                       nOther |-> r.nOther]
    /\ UNCHANGED <<now, ticks, item_progress, calls, lastOp, catalog>>
    /\ UNCHANGED sessionVars
    /\ UNCHANGED auxVars

NextDeck ==
    \E current_level \in 1..3, total_items \in 1..MaxDeckSize :
        CallBuildDeck(current_level, total_items)

SpecDeck == InitDeck /\ [][NextDeck]_vars

-----------------------------------------------------------------------------
(* Claims about build_deck, checked under SpecDeck *)

\* The rows of the snapshot that are due at the time of the call.
DueNow == DueKeys(item_progress, now)

DueAt(d) == item_progress[Key(d)].next_due_at

StageOf(k) == RowOf(item_progress, k).review_stage

Level1Tagged(tag) ==
    IF 1 \in DOMAIN catalog
    THEN {<<1, catalog[1][i].id>> : i \in {j \in 1..Len(catalog[1]) :
                                              catalog[1][j].sublevel = tag}}
    ELSE {}

LevelKeys(level) == {k \in CatalogKeys(catalog) : k[1] = level}

\* C5: with current_level = 1, among the entries the current-level step adds, a
\* "di" item is added only after every unfinished "mono" item of level 1 is in
\* the deck.  With no due items, 2 unfinished mono items and 1 unfinished di
\* item, a deck of size 3 lists both mono items before the di item and a deck
\* of size 2 holds only the two mono items.
C5_SublevelGating ==
    deckCall.called /\ deckCall.level = 1 =>
        LET deck == deckCall.deck
            unfinishedMono == {k \in Level1Tagged("mono") : StageOf(k) # 3}
        IN  /\ \A i \in (deckCall.nDue + 1)..(deckCall.nDue + deckCall.nCur) :
                  Key(deck[i]) \in Level1Tagged("di") =>
                      \A m \in unfinishedMono : \E j \in 1..(i - 1) : Key(deck[j]) = m
            /\ (/\ catalog = CatalogMonoDi
                /\ DueNow = {}
                /\ \A k \in LevelKeys(1) : StageOf(k) # 3) =>
                    /\ (deckCall.total = 3 =>
                            /\ Len(deck) = 3
                            /\ {Key(deck[1]), Key(deck[2])} = {<<1, "mono1">>, <<1, "mono2">>}
                            /\ Key(deck[3]) = <<1, "di1">>)
                    /\ (deckCall.total = 2 =>
                            /\ Len(deck) = 2
                            /\ {Key(deck[1]), Key(deck[2])} = {<<1, "mono1">>, <<1, "mono2">>})

\* C5 witness: a size-3 deck of level 1 with both mono items, then the di item.
C5_Witness ==
    /\ deckCall.called
    /\ deckCall.level = 1
    /\ deckCall.total = 3
    /\ catalog = CatalogMonoDi
    /\ DueNow = {}
    /\ deckCall.nCur = 3
    /\ Key(deckCall.deck[3]) = <<1, "di1">>

\* C6 as claimed: for two due items with due times T1 < T2 in the deck, T1's
\* item precedes T2's, and every due item in the deck precedes every non-due
\* entry.
C6_DueFirstEverywhere ==
    deckCall.called =>
        LET deck == deckCall.deck
        IN  \A i \in 1..Len(deck), j \in 1..Len(deck) :
              /\ (/\ Key(deck[i]) \in DueNow
                  /\ Key(deck[j]) \in DueNow
                  /\ DueAt(deck[i]) < DueAt(deck[j])) => i < j
              /\ (Key(deck[i]) \in DueNow /\ Key(deck[j]) \notin DueNow) => i < j

\* C6 amended: the deck starts with the due items (as many as fit) in ascending
\* order of next_due_at, so the first occurrence of T1's item precedes T2's,
\* and no entry added after them by the current-level and other-level steps is
\* due; only the repeat fallback can list a due item again.
C6_DueFirstBeforeRepeats ==
    deckCall.called =>
        LET deck == deckCall.deck
            nDue == deckCall.nDue
            added == nDue + deckCall.nCur + deckCall.nOther
        IN  /\ nDue = Min2(deckCall.total, Cardinality(DueNow))
            /\ added <= Len(deck)
            /\ \A i \in 1..nDue : Key(deck[i]) \in DueNow
            /\ \A i \in 1..nDue, j \in 1..nDue :
                  DueAt(deck[i]) < DueAt(deck[j]) => i < j
            /\ \A k \in DueNow :
                  (\A i \in 1..nDue : Key(deck[i]) # k) =>
                      \A i \in 1..nDue : DueAt(deck[i]) <= item_progress[k].next_due_at
            /\ \A i \in (nDue + 1)..added : Key(deck[i]) \notin DueNow

\* C6 witness: two due items with different due times head the deck and a
\* non-due entry follows them.
C6_Witness ==
    /\ deckCall.called
    /\ deckCall.nDue = 2
    /\ DueAt(deckCall.deck[1]) < DueAt(deckCall.deck[2])
    /\ deckCall.nCur + deckCall.nOther >= 1
    /\ Len(deckCall.deck) >= 3

\* C7: when every item of level 1 has review_stage = 3 and no item is due,
\* build_deck(current_level = 1, total_items = K), with K at most the number of
\* unfinished level-2 items, returns K entries, all of level 2.
C7_LevelAdvance ==
    (/\ deckCall.called
     /\ deckCall.level = 1
     /\ \A k \in LevelKeys(1) : StageOf(k) = 3
     /\ DueNow = {}
     /\ deckCall.total <= Cardinality({k \in LevelKeys(2) : StageOf(k) # 3})) =>
        /\ Len(deckCall.deck) = deckCall.total
        /\ \A i \in 1..Len(deckCall.deck) : deckCall.deck[i].level = 2

\* C7 witness: level 1 (two items) is mastered and a size-2 deck was built.
C7_Witness ==
    /\ deckCall.called
    /\ deckCall.level = 1
    /\ catalog = CatalogPlain
    /\ \A k \in LevelKeys(1) : StageOf(k) = 3
    /\ DueNow = {}
    /\ deckCall.total = 2
    /\ {Key(deckCall.deck[i]) : i \in 1..Len(deckCall.deck)} = LevelKeys(2)

\* C8: build_deck returns fewer than total_items entries only if the catalog
\* of all levels together has fewer than total_items items.
C8_ShortOnlyIfCatalogSmall ==
    deckCall.called =>
        (Len(deckCall.deck) < deckCall.total => CatalogSize(catalog) < deckCall.total)

-----------------------------------------------------------------------------
(* Spec and SpecLong: one learner using the bot.  Spec follows the learner   *)
(* over two sessions with few recordings; SpecLong follows one session to    *)
(* its end.                                                                  *)

MaxSessions == 2     \* Spec: sessions started
MaxCorrect == 2      \* Spec: correct recordings over the whole run
MaxWrong == 5        \* Spec: wrong recordings over the whole run

LongSessions == 1    \* SpecLong: sessions started
LongCorrect == 20    \* SpecLong: correct recordings over the whole run
LongWrong == 5       \* SpecLong: wrong recordings over the whole run

WrongSoFar ==
    LET RECURSIVE sum(_)
        sum(i) == IF i = 0 THEN 0
                  ELSE (attempts[i].total - attempts[i].correct) + sum(i - 1)
    IN  sum(Len(attempts))

CorrectSoFar ==
    LET RECURSIVE sum(_)
        sum(i) == IF i = 0 THEN 0 ELSE attempts[i].correct + sum(i - 1)
    IN  sum(Len(attempts))

Init ==
    /\ now = 0
    /\ ticks = 0
    /\ item_progress = <<>>
    /\ calls = NoCalls
    /\ lastOp = NoOp
    /\ catalog \in {CatalogSession, CatalogNoItems}
    /\ deckCall = NoCall
    /\ NoSessions
    /\ NoAux

\* A handler run is committed: its store becomes the tables.  A run that
\* only answered the learner leaves every variable as it was.
Commit(r) ==
    /\ sessions' = r.S.sessions
    /\ session_state' = r.S.session_state
    /\ updated_order' = r.S.order
    /\ attempts' = r.S.attempts
    /\ progress' = r.S.progress
    /\ pet' = r.S.pet
    /\ item_progress' = r.S.ip
    /\ lastHandler' = IF r.S = Store THEN lastHandler ELSE r.h
    /\ UNCHANGED <<now, ticks, calls, lastOp, catalog, deckCall>>
    /\ UNCHANGED auxVars

\* Whether start_or_continue would create a session in store S.
StartsSession(S) ==
    LET p == rollover_if_needed(S.pet, now)
        sid == get_active_session(S)
    IN  IF p.is_dead THEN sid = 0 \/ S.session_state[sid].mode # "revival"
        ELSE sid = 0

\* The practice button (level None) or /session [level].
StartOrContinue(level, maxSessions) ==
    /\ StartsSession(Store) => Len(sessions) < maxSessions
    /\ \E r \in start_or_continue(Store, now, level, "start_or_continue") : Commit(r)

CmdNextSession(maxSessions) ==
    /\ Len(sessions) < maxSessions
    /\ \E r \in cmd_next_session(Store, now) : Commit(r)

CmdStop ==
    /\ get_active_session(Store) # 0
    /\ \E r \in cmd_stop(Store, now) : Commit(r)

OnCareMore(maxSessions) ==
    \E r \in on_care_more(Store, now) :
        /\ Len(r.S.sessions) <= maxSessions
        /\ Commit(r)

HandleVoice(ok, maxCorrect, maxWrong) ==
    /\ get_active_session(Store) # 0
    /\ IF ok THEN CorrectSoFar < maxCorrect ELSE WrongSoFar < maxWrong
    /\ \E r \in handle_voice(Store, now, ok) : Commit(r)

OnCare(action) ==
    /\ get_active_session(Store) # 0
    /\ \E r \in on_care(Store, now, action) : Commit(r)

OnDeadline ==
    \E r \in on_deadline(Store, now) : Commit(r)

Handlers(maxSessions, maxCorrect, maxWrong) ==
    \/ \E level \in {1, 2} : StartOrContinue(level, maxSessions)
    \/ CmdNextSession(maxSessions)
    \/ CmdStop
    \/ OnCareMore(maxSessions)
    \/ \E ok \in BOOLEAN : HandleVoice(ok, maxCorrect, maxWrong)
    \/ \E action \in CareActions : OnCare(action)
    \/ OnDeadline

Next ==
    \/ Tick(TwoDays)
    \/ Handlers(MaxSessions, MaxCorrect, MaxWrong)

Spec == Init /\ [][Next]_vars

NextLong ==
    \/ Tick(TwoDays)
    \/ Handlers(LongSessions, LongCorrect, LongWrong)

SpecLong == Init /\ [][NextLong]_vars

\* SpecLive: a learner who starts one session, answers every card correctly
\* and answers every care gate, and goes on doing so.  Time passes and the
\* deadline job runs as they please.
NextLive ==
    \/ Tick(TwoDays)
    \/ StartOrContinue(user_current_level, 1)
    \/ HandleVoice(TRUE, LongCorrect, 0)
    \/ \E action \in CareActions : OnCare(action)
    \/ OnDeadline

\* handle_voice would judge a recording now: an active session that is not
\* waiting for a care choice, a pet that is alive (or a revival), a card left.
VoiceReady ==
    LET sid == get_active_session(Store)
    IN  /\ sid # 0
        /\ CorrectSoFar < LongCorrect
        /\ session_state[sid].awaiting_care = 0
        /\ ~(rollover_if_needed(pet, now).is_dead /\ session_state[sid].mode # "revival")
        /\ session_state[sid].item_index < Len(session_state[sid].deck)

\* A step in which a recording was judged and logged.
JudgedStep == Len(attempts') = Len(attempts) /\ attempts' # attempts

\* The active session waits for a care choice.
CareReady ==
    LET sid == get_active_session(Store)
    IN  sid # 0 /\ session_state[sid].awaiting_care = 1

\* A step in which a pending care choice was made.
CareStep ==
    \E sid \in DOMAIN session_state :
        /\ session_state[sid].awaiting_care = 1
        /\ (sid \in DOMAIN session_state' => session_state'[sid].awaiting_care = 0)

\* The learner's fairness, as weak fairness of the two steps written out with
\* their enabling conditions: a recording that would be judged is eventually
\* sent, and a pending care choice is eventually made.
SpecLive ==
    /\ Init
    /\ [][NextLive]_vars
    /\ ([]<>~VoiceReady \/ []<><<JudgedStep>>_vars)
    /\ ([]<>~CareReady \/ []<><<CareStep>>_vars)

-----------------------------------------------------------------------------
(* Claims about the session machine *)

\* A voice run that got as far as judging the recording.
VoiceJudged ==
    /\ lastHandler.op = "handle_voice"
    /\ lastHandler.outcome \in {"accepted", "retry", "force_advance"}

\* C4: in every reachable state the learner has at most one active
\* SessionState (unblocked, session pending or active): a start_session,
\* start_revival or start_freecare_gate triggered while one exists resumes it
\* or is rejected, and never creates a second one.
C4_AtMostOneActive == Cardinality(ActiveIds(Store)) <= 1

\* C9: a correct answer adds one to correct_count, advances item_index by one
\* and resets current_attempts; a wrong answer adds one to wrong_total and to
\* current_attempts and keeps item_index, except that the fifth wrong answer in
\* a row on one item advances item_index with current_attempts reset and
\* correct_count unchanged.  The stored current_attempts is always in 0..4.
C9_AttemptCounters ==
    /\ \A sid \in DOMAIN session_state : session_state[sid].current_attempts \in 0..4
    /\ VoiceJudged =>
        LET b == lastHandler.before
            a == lastHandler.after
            sid == lastHandler.sid
        IN  /\ (lastHandler.ok =>
                    /\ a.correct_count = b.correct_count + 1
                    /\ a.item_index = b.item_index + 1
                    /\ a.current_attempts = 0
                    /\ a.wrong_total = b.wrong_total)
            /\ (~lastHandler.ok /\ b.current_attempts < 4 =>
                    /\ a.wrong_total = b.wrong_total + 1
                    /\ a.current_attempts = b.current_attempts + 1
                    /\ a.item_index = b.item_index
                    /\ a.correct_count = b.correct_count)
            /\ (~lastHandler.ok /\ b.current_attempts = 4 =>
                    /\ a.wrong_total = b.wrong_total + 1
                    /\ a.current_attempts = 0
                    /\ a.item_index = b.item_index + 1
                    /\ a.correct_count = b.correct_count)
            /\ (sid \in DOMAIN session_state =>
                    /\ session_state[sid].correct_count = a.correct_count
                    /\ session_state[sid].wrong_total = a.wrong_total
                    /\ session_state[sid].item_index = a.item_index
                    /\ session_state[sid].current_attempts = a.current_attempts)

\* The fifth wrong answer in a row has just skipped an item of a session that
\* also has a correct answer.
C9_Witness ==
    /\ VoiceJudged
    /\ lastHandler.outcome = "force_advance"
    /\ lastHandler.before.current_attempts = 4
    /\ lastHandler.before.correct_count >= 1

\* What holds of the care fields of every stored session row.
CareFieldsOk ==
    \A sid \in DOMAIN session_state :
        LET r == session_state[sid]
        IN  /\ (r.mode = "normal" =>
                    /\ r.care_stage \in 0..2
                    /\ (r.item_index >= 5 <=> r.care_stage >= 1)
                    /\ (r.item_index >= 10 <=> r.care_stage = 2)
                    /\ (r.awaiting_care = 1 =>
                            /\ r.care_json # NoCare
                            /\ r.item_index \in {5, 10}))
            /\ (r.mode = "revival" =>
                    /\ r.care_stage = 0
                    /\ r.awaiting_care = 0
                    /\ r.care_json = NoCare)

\* A normal session is finalized only with the gates of its length behind it.
FinalizedAfterGates ==
    (/\ lastHandler.op \in {"handle_voice", "on_care"}
     /\ lastHandler.outcome \in {"accepted", "force_advance", "applied"}
     /\ lastHandler.finalized # 0
     /\ lastHandler.final.mode = "normal") =>
        /\ lastHandler.final.awaiting_care = 0
        /\ (lastHandler.final.item_index >= 5 => lastHandler.final.care_stage >= 1)
        /\ (lastHandler.final.item_index >= 10 => lastHandler.final.care_stage = 2)

\* A task of a normal session is sent only while no care choice is pending,
\* and a task after the fifth item only once the first gate has opened.
PresentedAfterGates ==
    (/\ lastHandler.op \in {"handle_voice", "on_care", "start_or_continue",
                             "cmd_next_session"}
     /\ lastHandler.outcome \in {"accepted", "retry", "force_advance", "applied",
                                  "resumed", "session_started", "revival_started"}
     /\ lastHandler.sent # <<0, 0>>
     /\ lastHandler.sent[1] \in DOMAIN session_state
     /\ session_state[lastHandler.sent[1]].mode = "normal") =>
        /\ session_state[lastHandler.sent[1]].awaiting_care = 0
        /\ (lastHandler.sent[2] >= 5 =>
                session_state[lastHandler.sent[1]].care_stage >= 1)

\* Every change of care_stage is one gate opening, at the index of that gate.
GateStep ==
    \A sid \in DOMAIN session_state \cap DOMAIN session_state' :
        LET r == session_state[sid]
            q == session_state'[sid]
        IN  /\ (q.care_stage # r.care_stage \/ (r.awaiting_care = 0 /\ q.awaiting_care = 1) =>
                    /\ q.care_stage = r.care_stage + 1
                    /\ r.awaiting_care = 0
                    /\ q.awaiting_care = 1
                    /\ q.care_json # NoCare
                    /\ r.mode # "revival"
                    /\ (r.mode = "normal" =>
                            /\ q.item_index = IF r.care_stage = 0 THEN 5 ELSE 10
                            /\ r.item_index = q.item_index - 1))
            /\ (r.awaiting_care = 1 /\ q.awaiting_care = 1 =>
                    /\ q.item_index = r.item_index
                    /\ q.correct_count = r.correct_count
                    /\ q.wrong_total = r.wrong_total)

\* C10: in a normal session, when item_index reaches 5 with care_stage < 1 or
\* 10 with care_stage < 2, by a correct answer or by a forced advance, the
\* session enters awaiting_care = 1 with care_stage incremented and a care
\* payload stored before a further item is presented or the session is
\* finalized; each of the two gates opens exactly once per session, and no gate
\* opens in a revival session.
C10_CareGates ==
    /\ [](CareFieldsOk /\ FinalizedAfterGates /\ PresentedAfterGates)
    /\ [][GateStep]_vars

\* The second gate of a normal session has just been opened by a forced
\* advance over its tenth item.
C10_Witness ==
    /\ VoiceJudged
    /\ lastHandler.outcome = "force_advance"
    /\ lastHandler.gate # 0
    /\ lastHandler.gate \in DOMAIN session_state
    /\ session_state[lastHandler.gate].mode = "normal"
    /\ session_state[lastHandler.gate].care_stage = 2
    /\ session_state[lastHandler.gate].awaiting_care = 1
    /\ session_state[lastHandler.gate].item_index = 10

\* A recording sent while the learner's active session waits for a care
\* choice: every run of handle_voice leaves the tables as they are, but for
\* the pet's day rollover.
VoiceRejectedDuringCare ==
    LET sid == get_active_session(Store)
    IN  (sid # 0 /\ session_state[sid].awaiting_care = 1) =>
            \A ok \in BOOLEAN : \A r \in handle_voice(Store, now, ok) :
                /\ r.h.outcome = "awaiting_care"
                /\ r.S = [Store EXCEPT !.pet = rollover_if_needed(@, now)]

\* What a step does to a session that waits for a care choice.
WaitingStep ==
    \A sid \in DOMAIN session_state :
        LET r == session_state[sid]
            chosen == /\ lastHandler'.op = "on_care"
                      /\ lastHandler'.outcome = "applied"
                      /\ lastHandler'.sid = sid
                      /\ lastHandler'.action \in r.care_json.options
        IN  r.awaiting_care = 1 =>
                /\ attempts'[sid] = attempts[sid]
                /\ (sid = get_active_session(Store) => item_progress' = item_progress)
                /\ (sid \notin DOMAIN session_state' => chosen)
                /\ (sid \in DOMAIN session_state' =>
                        LET q == session_state'[sid]
                        IN  /\ q.item_index = r.item_index
                            /\ q.correct_count = r.correct_count
                            /\ q.wrong_total = r.wrong_total
                            /\ q.current_attempts = r.current_attempts
                            /\ (q.awaiting_care = 0 => chosen))

\* C11: while a session has awaiting_care set, a voice attempt is rejected
\* without effect: no attempt is logged and item_index, correct_count,
\* wrong_total, current_attempts and every ItemProgress record are unchanged;
\* attempts are accepted again only after a care option from the offered set
\* has been chosen.
C11_RejectedWhileAwaitingCare ==
    /\ [](VoiceRejectedDuringCare
          /\ (VoiceJudged => lastHandler.before.awaiting_care = 0))
    /\ [][WaitingStep]_vars

\* A recording was judged in a session that had passed its first care gate,
\* that is, after the learner chose one of the offered options.
C11_Witness ==
    /\ VoiceJudged
    /\ lastHandler.before.mode = "normal"
    /\ lastHandler.before.care_stage = 1
    /\ lastHandler.before.item_index = 5
    /\ lastHandler.before.care_json # NoCare

\* finish_if_needed applied to any stored row of a reachable state.
FinishIfNeededOk ==
    \A sid \in DOMAIN session_state :
        LET r == session_state[sid]
            T == finish_if_needed(Store, sid, r.level)
        IN  IF r.item_index >= r.total_items
            THEN /\ finish_if_needed_result(Store, sid)
                 /\ T.progress[r.level] = Max2(progress[r.level], attempts[sid].correct)
                 /\ \A l \in DOMAIN progress \ {r.level} : T.progress[l] = progress[l]
                 /\ sid \notin DOMAIN T.session_state
            ELSE /\ ~finish_if_needed_result(Store, sid)
                 /\ T = Store

\* In a step no level progress goes down, and a row disappears only in a
\* finalization that leaves max(progress, correct attempts of the session).
ProgressStep ==
    /\ \A l \in DOMAIN progress : progress'[l] >= progress[l]
    /\ \A sid \in DOMAIN session_state \ DOMAIN session_state' :
        LET r == session_state[sid]
        IN  /\ lastHandler'.op \in {"handle_voice", "on_care"}
            /\ lastHandler'.outcome \in {"accepted", "force_advance", "applied"}
            /\ lastHandler'.finalized = sid
            /\ lastHandler'.final.item_index >= lastHandler'.final.total_items
            /\ progress'[r.level] = Max2(progress[r.level], attempts'[sid].correct)

\* C12: finish_if_needed on a session with item_index >= total_items sets the
\* level progress of its level to max(existing progress, correct attempts
\* recorded for the session) and deletes the SessionState; with item_index <
\* total_items it returns false and changes nothing.  Across any sequence of
\* sessions the level progress of a level never decreases.
C12_FinishIfNeeded ==
    /\ []FinishIfNeededOk
    /\ [][ProgressStep]_vars

\* A first session was finalized with two correct answers; a second one was
\* closed without any, and the level progress is still two.
C12_Witness ==
    /\ Len(sessions) = 2
    /\ 1 \notin DOMAIN session_state
    /\ sessions[1].status = "passed"
    /\ attempts[1].correct = 2
    /\ sessions[2].status = "done"
    /\ attempts[2].correct = 0
    /\ progress[sessions[1].level] = 2

\* The sessions whose SessionState finish_if_needed has deleted.
FinishedIds ==
    {sid \in 1..Len(sessions) :
        sid \notin DOMAIN session_state /\ sessions[sid].status \in {"passed", "done"}}

\* C13: calling finish_if_needed a second time on a session whose SessionState
\* was already deleted is a no-op: it reports "finished" without error and
\* changes neither the session status, nor the level progress, nor any other
\* record.
C13_FinishTwice ==
    /\ \A sid \in FinishedIds : \A level \in DOMAIN progress :
            /\ finish_if_needed_result(Store, sid)
            /\ finish_if_needed(Store, sid, level) = Store
    /\ \A sid \in DOMAIN session_state :
            LET level == session_state[sid].level
                T == finish_if_needed(Store, sid, level)
            IN  /\ finish_if_needed(T, sid, level) = T
                /\ (finish_if_needed_result(Store, sid) => finish_if_needed_result(T, sid))

\* A session has just been finalized: its row is deleted and its level has
\* progress.
C13_Witness ==
    /\ FinishedIds # {}
    /\ lastHandler.op \in {"handle_voice", "on_care"}
    /\ lastHandler.outcome \in {"accepted", "force_advance", "applied"}
    /\ lastHandler.finalized \in FinishedIds
    /\ progress[sessions[lastHandler.finalized].level] > 0

\* The learner's first session is a normal one with a deck of ten cards.
LiveSession ==
    /\ 1 \in DOMAIN session_state
    /\ session_state[1].mode = "normal"
    /\ session_state[1].total_items = SessionSize

\* That session has been finalized: row deleted, ten correct answers counted
\* into the level progress, the completion bonus applied.
LiveFinalized ==
    /\ Len(sessions) >= 1
    /\ 1 \notin DOMAIN session_state
    /\ sessions[1].status = "passed"
    /\ progress[sessions[1].level] = SessionSize
    /\ pet.bonuses = 1

\* VoiceReady and CareReady are the conditions under which handle_voice logs
\* a correct recording and on_care, given an offered option, closes the gate.
ReadyIsEnabled ==
    /\ VoiceReady <=>
            /\ get_active_session(Store) # 0
            /\ CorrectSoFar < LongCorrect
            /\ \E r \in handle_voice(Store, now, TRUE) : r.S.attempts # attempts
    /\ CareReady =>
            LET sid == get_active_session(Store)
            IN  /\ session_state[sid].care_json.options # {}
                /\ \A action \in session_state[sid].care_json.options :
                       \A r \in on_care(Store, now, action) :
                           sid \in DOMAIN r.S.session_state =>
                               r.S.session_state[sid].awaiting_care = 0

\* C14 as stated, in the form a finite run refutes: in a normal session with a
\* 10-item deck in which every attempt is correct and every opened care gate
\* is answered, the session eventually finalizes, so as long as it is not
\* finalized the learner has a step left that takes it further: a recording
\* that is judged or a care choice that is pending.
C14_AlwaysAStepLeft ==
    LiveSession => (get_active_session(Store) = 1 /\ (VoiceReady \/ CareReady))

\* C14, amended: in a normal session with a 10-item deck in which every
\* attempt is correct and every opened care gate is answered with one of the
\* offered options, the session eventually finalizes (SessionState deleted,
\* level progress max(previous, 10), pet bonus applied), unless the deadline
\* job blocks the session or the pet dies (two days in a row without a
\* finished session) before the last card is answered.
C14_FinalizesUnlessInterrupted ==
    /\ []ReadyIsEnabled
    /\ LiveSession ~> (\/ LiveFinalized
                       \/ (Len(sessions) >= 1 /\ sessions[1].status = "blocked")
                       \/ rollover_if_needed(pet, now).is_dead)

\* The ten-card session of a learner who answered everything has been
\* finalized by the care choice at its second gate.
C14_Witness ==
    /\ LiveFinalized
    /\ lastHandler.op = "on_care"
    /\ lastHandler.outcome = "applied"
    /\ lastHandler.finalized = 1
    /\ lastHandler.final.item_index = SessionSize
    /\ lastHandler.final.wrong_total = 0
    /\ lastHandler.final.care_stage = 2


\* C15: starting a session (start_session or start_revival) when build_deck
\* returns an empty deck aborts the start: no SessionState row is created for
\* it and no session is left in status 'active'.  Every stored row therefore
\* has a deck with a card, and so does every active session.
C15_EmptyDeckAbortsStart ==
    /\ \A sid \in DOMAIN session_state : session_state[sid].deck # <<>>
    /\ \A sid \in 1..Len(sessions) :
           sessions[sid].status = "active" =>
               HasState(Store, sid) /\ session_state[sid].total_items > 0

\* C16: a care callback whose action is not in the options stored in the
\* session's current care payload is rejected: the pet record and the session
\* state (awaiting_care, care_stage, care_json, item_index, counters) are all
\* unchanged, and the gate stays open.  on_care applied to any reachable store
\* with such an action leaves every table as it was.
C16_UnofferedCareRejected ==
    LET sid == get_active_session(Store)
    IN  (sid # 0 /\ session_state[sid].care_json # NoCare) =>
            \A action \in CareActions \ session_state[sid].care_json.options :
                \A r \in on_care(Store, now, action) :
                    /\ r.h.outcome = "not_offered"
                    /\ r.S = Store

\* A care gate is open and a button that was not offered is pressed.
C16_Witness ==
    LET sid == get_active_session(Store)
    IN  /\ sid # 0
        /\ session_state[sid].awaiting_care = 1
        /\ session_state[sid].care_stage = 2
        /\ session_state[sid].care_json # NoCare
        /\ \E action \in CareActions \ session_state[sid].care_json.options :
               \E r \in on_care(Store, now, action) :
                   r.h.outcome = "not_offered" /\ r.S.session_state[sid].awaiting_care = 1

\* The step finalizes a session of the given mode: _finalize_session ran for
\* it and its state row is gone.
FinalizedNow(mode) ==
    /\ lastHandler'.op \in {"handle_voice", "on_care"}
    /\ lastHandler'.outcome \in {"accepted", "force_advance", "applied"}
    /\ lastHandler'.finalized \in DOMAIN session_state
    /\ lastHandler'.finalized \notin DOMAIN session_state'
    /\ session_state[lastHandler'.finalized].mode = mode

\* sessions_today rises only in a step that finalizes a normal session; any
\* other step leaves it as it was or as the day rollover resets it.
SessionsTodayStep ==
    /\ pet'.sessions_today > pet.sessions_today => FinalizedNow("normal")
    /\ ~FinalizedNow("normal") =>
           pet'.sessions_today \in {pet.sessions_today,
                                    rollover_if_needed(pet, now).sessions_today}

WrongAttempts(log, sid) == log[sid].total - log[sid].correct

\* apply_bonus runs exactly in the steps that finalize a normal session with at
\* most two wrong attempts, once.
BonusStep ==
    LET sid == lastHandler'.finalized
        few == /\ session_state[sid].wrong_total <= BonusMaxWrong
               /\ WrongAttempts(attempts', sid) <= BonusMaxWrong
    IN  /\ pet'.bonuses \in {pet.bonuses, pet.bonuses + 1}
        /\ pet'.bonuses = pet.bonuses + 1 <=> (FinalizedNow("normal") /\ few)

\* C18: when a normal-mode session is finalized, the pet completion bonus is
\* applied if and only if the session's wrong_total (all wrong attempts,
\* including those on force-skipped items) is at most 2; revival and freecare
\* finalization never apply the bonus.
C18_BonusIffFewWrong == [][BonusStep]_vars

\* A normal session with three wrong attempts was finalized without a bonus.
C18_Witness ==
    /\ lastHandler.op \in {"handle_voice", "on_care"}
    /\ lastHandler.outcome \in {"accepted", "force_advance", "applied"}
    /\ lastHandler.finalized = 1
    /\ lastHandler.final.mode = "normal"
    /\ lastHandler.final.wrong_total = BonusMaxWrong + 1
    /\ WrongAttempts(attempts, 1) = BonusMaxWrong + 1
    /\ ~HasState(Store, 1)
    /\ pet.bonuses = 0

\* C19: a dead pet is revived only after a run of 20 consecutive correct
\* answers: a single wrong answer resets the revival streak to 0, and no
\* revival session that contains a wrong or force-skipped item within its
\* last 20 processed cards causes is_dead to become false.  A revival session
\* that is finalized, which revives the pet, therefore has 20 cards answered
\* correctly and none passed over after five wrong attempts.
C19_RevivedOnlyAfterStreak ==
    (/\ lastHandler.op \in {"handle_voice", "on_care"}
     /\ lastHandler.outcome \in {"accepted", "force_advance", "applied"}
     /\ lastHandler.finalized # 0
     /\ lastHandler.final.mode = "revival"
     /\ ~pet.is_dead) =>
        /\ lastHandler.final.correct_count >= RevivalSize
        /\ lastHandler.final.wrong_total < ForceAdvanceAt

\* C20: in every state reachable by record_correct / record_wrong calls, an
\* item with review_stage = 3 (mastered) has next_due_at null, so a mastered
\* item is never returned as due and never re-enters a deck through the
\* due-review step.
C20_MasteredNeverDue ==
    \A k \in DOMAIN item_progress :
        item_progress[k].review_stage = 3 =>
            /\ item_progress[k].next_due_at = NoneTs
            /\ \A t \in {now, now + TenMinutes, now + TwoDays} :
                   k \notin DueKeys(item_progress, t)

\* C21: for a user with no item progress, build_deck(current_level=L,
\* total_items=n), with n the number of items in level L's catalog, returns
\* exactly level L's items in catalog order.
C21_FreshDeckInCatalogOrder ==
    (/\ deckCall.called
     /\ item_progress = <<>>
     /\ LevelFileExists(catalog, deckCall.level)
     /\ deckCall.total = Len(get_level_items(catalog, deckCall.level))) =>
        deckCall.deck = [i \in 1..deckCall.total |->
                            DeckItem(deckCall.level,
                                     get_level_items(catalog, deckCall.level)[i].id)]

\* C22: after build_deck(user, current_level=1, ...) has exhausted level 1's
\* unfinished items and spilled into level 2, the user's stored current_level
\* is 2.
C22_StoredLevelAdvances ==
    (/\ deckCall.called
     /\ deckCall.level = 1
     /\ LevelKeys(1) # {}
     /\ \A k \in LevelKeys(1) : StageOf(k) = 3
     /\ \E i \in 1..Len(deckCall.deck) : deckCall.deck[i].level = 2) =>
        user_current_level = 2

-----------------------------------------------------------------------------
(* SpecPet: the continuous PetService driven by arbitrary calls *)

\* The actions perform_action knows, and one it does not.
PetActions == {"feed", "water", "wash", "sleep", "play", "heal"}

InitPet ==
    /\ now = 0
    /\ ticks = 0
    /\ item_progress = <<>>
    /\ calls = NoCalls
    /\ lastOp = NoOp
    /\ catalog = CatalogSession
    /\ deckCall = NoCall
    /\ NoSessions
    /\ NoAux

\* A PetService call wrote row: the row and the history change, only they.
PetWrite(op, arg, ok, row) ==
    /\ petRow' = row
    /\ petLog' = [op |-> op, arg |-> arg, n |-> petLog.n + 1, ok |-> ok,
                  before |-> petRow, at |-> now]
    /\ UNCHANGED <<now, ticks, item_progress, calls, lastOp, catalog, deckCall, sched>>
    /\ UNCHANGED sessionVars

\* Nine hours pass: the clock reaches session times and times between them.
PetTick ==
    /\ ticks < MaxPetTicks
    /\ now' = now + 9 * 60
    /\ ticks' = ticks + 1
    /\ UNCHANGED <<item_progress, calls, lastOp, catalog, deckCall>>
    /\ UNCHANGED sessionVars
    /\ UNCHANGED auxVars

ApplyDecay ==
    /\ petLog.n < MaxPetCalls
    /\ PetWrite("apply_decay", "", TRUE, apply_decay(petRow, now))

AddActionToken ==
    /\ petLog.n < MaxPetCalls
    /\ PetWrite("add_action_token", "", TRUE, add_action_token(petRow))

PerformAction(action) ==
    /\ petLog.n < MaxPetCalls
    /\ LET r == perform_action(petRow, action)
       IN  PetWrite("perform_action", action, r.ok, r.row)

Revive ==
    /\ petLog.n < MaxPetCalls
    /\ PetWrite("revive", "", TRUE, PetService_revive(petRow))

OnSessionCompleted ==
    /\ petLog.n < MaxPetCalls
    /\ PetWrite("on_session_completed", "", TRUE, on_session_completed(petRow, now))

\* on_correct, on_correct_attempt, or on_wrong_attempt (which on_wrong calls).
OnAttempt(method) ==
    /\ petLog.n < MaxPetCalls
    /\ PetWrite(method, "", TRUE,
                CASE method = "on_correct" -> on_correct(petRow)
                  [] method = "on_correct_attempt" -> on_correct_attempt(petRow)
                  [] method = "on_wrong_attempt" -> on_wrong_attempt(petRow))

NextPet ==
    \/ PetTick
    \/ ApplyDecay
    \/ AddActionToken
    \/ \E action \in PetActions \cup {"dance"} : PerformAction(action)
    \/ Revive
    \/ OnSessionCompleted
    \/ \E method \in {"on_correct", "on_correct_attempt", "on_wrong_attempt"} :
          OnAttempt(method)

SpecPet == InitPet /\ [][NextPet]_vars

-----------------------------------------------------------------------------
(* Claims about the continuous pet, checked under SpecPet *)

\* The scheduled session slots in (from, to]: the session times of every day
\* since day 0 that are later than from and not later than to.
SlotsMissed(from, to) ==
    Cardinality({t \in {d * OneDay + m : d \in 0..(to \div OneDay), m \in SessionTimes} :
                    t \in (from + 1)..to})

\* What an apply_decay step does to the row.  The sick limits are required
\* after every call (always) or only after a call in which a slot was missed.
DecayStep(always) ==
    (petLog'.n = petLog.n + 1 /\ petLog'.op = "apply_decay") =>
        LET b == petRow
            a == petRow'
            n == IF b.last_checked_at = NoneTs THEN 0
                 ELSE SlotsMissed(b.last_checked_at, now)
        IN  IF b.is_dead
            THEN a = [b EXCEPT !.last_checked_at = now]
            ELSE /\ a.missed_sessions_streak = b.missed_sessions_streak + n
                 /\ a.is_dead <=> a.missed_sessions_streak >= DeadAt
                 /\ a.is_dead =>
                        a.happiness = 0 /\ a.health = 0 /\ a.action_tokens = 0
                 /\ (a.missed_sessions_streak = SickAt /\ (always \/ n > 0)) =>
                        a.health <= SickHealth /\ a.happiness <= SickHappiness
                 /\ \A k \in Stats : a[k] \in 0..100
                 /\ a.last_checked_at = now

\* C23 as stated: apply_decay on a living pet adds one to
\* missed_sessions_streak for every scheduled session slot in
\* (last_checked_at, now]; after the call the pet is dead iff the resulting
\* streak is >= 4 (then happiness = health = 0 and action_tokens = 0), and if
\* the resulting streak is exactly 3 then health <= 25 and happiness <= 40;
\* every need and happiness stays within 0..100.  apply_decay on a dead pet
\* changes only last_checked_at.
C23_DecayAsStated == [][DecayStep(TRUE)]_vars

\* C23, amended: as above, but the limits health <= 25 and happiness <= 40 at
\* a streak of exactly 3 hold after a call in which at least one slot was
\* missed; a call in which no slot was missed leaves health and happiness as
\* they were, also at a streak of 3.
C23_DecayOnMissedSlots ==
    [][/\ DecayStep(FALSE)
       /\ (/\ petLog'.n = petLog.n + 1
           /\ petLog'.op = "apply_decay"
           /\ petRow.last_checked_at # NoneTs
           /\ SlotsMissed(petRow.last_checked_at, now) = 0) =>
              petRow' = [petRow EXCEPT !.last_checked_at = now]]_vars

\* apply_decay found the third missed slot in a row and made the pet sick.
C23_Witness ==
    /\ petLog.op = "apply_decay"
    /\ ~petLog.before.is_dead
    /\ petLog.before.missed_sessions_streak = SickAt - 1
    /\ petLog.before.health > SickHealth + 6
    /\ petRow.missed_sessions_streak = SickAt
    /\ petRow.health = SickHealth
    /\ petRow.happiness = SickHappiness
    /\ ~petRow.is_dead

\* What a perform_action step does to the row.
PerformStep ==
    (petLog'.n = petLog.n + 1 /\ petLog'.op = "perform_action") =>
        LET b == petRow
            a == petRow'
            action == petLog'.arg
            need == [feed |-> "hunger", water |-> "thirst", wash |-> "hygiene",
                     sleep |-> "energy", play |-> "mood", heal |-> "health"]
        IN  /\ petLog'.ok <=>
                   (~b.is_dead /\ b.action_tokens >= 1 /\ action \in PetActions)
            /\ petLog'.ok =>
                   /\ a.action_tokens = b.action_tokens - 1
                   /\ a[need[action]] > b[need[action]] \/ b[need[action]] = 100
                   /\ a[need[action]] = Min2(100, b[need[action]] + 35)
                        \/ a[need[action]] = Min2(100, b[need[action]] + 40)
                   /\ \A k \in DOMAIN b \ {"action_tokens", "happiness", need[action]} :
                          a[k] = b[k]
                   /\ a.happiness \in b.happiness..100
            /\ ~petLog'.ok => a = b

\* C24: after any sequence of add_action_token, perform_action, apply_decay
\* and revive, 0 <= action_tokens <= 2.  perform_action succeeds only when the
\* pet is alive, action_tokens >= 1 and the action is one of
\* feed/water/wash/sleep/play/heal; a success consumes exactly one token and
\* raises the matching need (clamped to 100); a failed perform_action leaves
\* the pet record unchanged.
C24_ActionTokens ==
    /\ [](petRow.action_tokens \in 0..MaxTokens)
    /\ [][PerformStep]_vars

\* With two tokens, feeding raised hunger from 80 to the limit of 100 and
\* used one token.
C24_Witness ==
    /\ petLog.op = "perform_action"
    /\ petLog.arg = "feed"
    /\ petLog.ok
    /\ petLog.before.action_tokens = MaxTokens
    /\ petLog.before.hunger = 80
    /\ petRow.hunger = 100
    /\ petRow.action_tokens = MaxTokens - 1

-----------------------------------------------------------------------------
(* SpecSched: the loop of ReminderScheduler._run under a passing clock *)

\* start(): a scheduler is built from a configuration and _run begins.
InitSched ==
    /\ now \in {8 * 60, 8 * 60 + 45, 10 * 60}
    /\ ticks = 0
    /\ item_progress = <<>>
    /\ calls = NoCalls
    /\ lastOp = NoOp
    /\ catalog = CatalogSession
    /\ deckCall = NoCall
    /\ NoSessions
    /\ petRow = NewPet
    /\ petLog = [op |-> "none", n |-> 0]
    /\ \E session_times \in {<<>>, <<<<9, 0>>>>, <<<<9, 0>>, <<18, 0>>>>},
          reminder_minutes_before \in {0, 30},
          deadline_minutes_after \in {0, 15, 30, 90} :
          sched = [pc |-> "loop", session_times |-> session_times,
                   reminder_delta |-> reminder_minutes_before,
                   deadline_delta |-> deadline_minutes_after,
                   started |-> now, read |-> NoneTs, next_event |-> NoEvent,
                   wake |-> NoneTs, invoked |-> {}]

\* _run, from the top of the loop to the sleep: now is read, the next event is
\* computed, and the task sleeps until it (60 seconds if there is none).
RunToSleep ==
    /\ sched.pc = "loop"
    /\ LET e == next_event(sched.session_times, sched.reminder_delta,
                           sched.deadline_delta, now)
       IN  sched' = [sched EXCEPT !.pc = "sleeping", !.read = now, !.next_event = e,
                                  !.wake = IF e = NoEvent THEN now + 1
                                           ELSE now + Max2(0, e.when - now)]
    /\ UNCHANGED <<now, ticks, item_progress, calls, lastOp, catalog, deckCall,
                   petRow, petLog>>
    /\ UNCHANGED sessionVars

\* _run after the sleep: the callback of the event's kind is invoked with the
\* event's name and time, and the loop starts over.
RunCallback ==
    /\ sched.pc = "sleeping"
    /\ now >= sched.wake
    /\ sched' = [sched EXCEPT !.pc = "loop",
                              !.invoked = IF sched.next_event = NoEvent THEN @
                                          ELSE @ \cup {sched.next_event}]
    /\ UNCHANGED <<now, ticks, item_progress, calls, lastOp, catalog, deckCall,
                   petRow, petLog>>
    /\ UNCHANGED sessionVars

\* Up to a quarter of an hour passes, while the task sleeps (it wakes when the
\* sleep is over) or while a callback runs.
SchedTick ==
    /\ ticks < MaxSchedTicks
    /\ sched.pc = "sleeping" => now < sched.wake
    /\ now' = IF sched.pc = "sleeping" THEN Min2(sched.wake, now + 15) ELSE now + 15
    /\ ticks' = ticks + 1
    /\ UNCHANGED <<item_progress, calls, lastOp, catalog, deckCall, petRow, petLog,
                   sched>>
    /\ UNCHANGED sessionVars

NextSched == RunToSleep \/ RunCallback \/ SchedTick

\* The task is scheduled whenever it can run, and the clock does not stop.
SpecSched ==
    /\ InitSched
    /\ [][NextSched]_vars
    /\ WF_vars(RunToSleep)
    /\ WF_vars(RunCallback)
    /\ WF_vars(SchedTick)

-----------------------------------------------------------------------------
(* Claims about the scheduler, checked under SpecSched *)

\* The occurrence of session time hm that counts at time t: today's if it is
\* strictly later than t, the following day's otherwise.
Occurrence(hm, t) ==
    LET today == Day(t) * OneDay + hm[1] * 60 + hm[2]
    IN  IF today > t THEN today ELSE today + OneDay

\* C25: _next_event(now) returns None iff no session times are configured;
\* otherwise it returns the event with the earliest time, where each session
\* time counts for today if it is strictly later than now and for the
\* following day otherwise, and a session's deadline event is at session time
\* + deadline_minutes_after (times 09:00/18:00, deadline +30, now 08:00 gives
\* the 09:00 session's deadline at 09:30).
C25_NextEvent ==
    sched.pc = "sleeping" =>
        LET e == sched.next_event
            names == Range(sched.session_times)
        IN  /\ e = NoEvent <=> names = {}
            /\ names # {} =>
                   /\ e.kind = "deadline"
                   /\ e.name \in names
                   /\ e.when = Occurrence(e.name, sched.read) + sched.deadline_delta
                   /\ \A hm \in names :
                          e.when <= Occurrence(hm, sched.read) + sched.deadline_delta

\* The first occurrence of each session time after the start whose deadline
\* lies within the explored time.
FirstDeadlines ==
    {[name |-> hm, kind |-> "deadline",
      when |-> Occurrence(hm, sched.started) + sched.deadline_delta] :
        hm \in {x \in Range(sched.session_times) :
                   Occurrence(x, sched.started) + sched.deadline_delta
                       < sched.started + 15 * MaxSchedTicks}}

\* C26: while the scheduler loop runs, for every occurrence of a configured
\* session time the deadline callback is eventually invoked with that
\* session's label and the time session time + deadline_minutes_after (for any
\* deadline_minutes_after >= 0).
C26_DeadlineEventuallyInvoked ==
    \A hm \in {<<9, 0>>, <<18, 0>>} :
        <>(\A e \in FirstDeadlines : e.name = hm => e \in sched.invoked)

-----------------------------------------------------------------------------
(* Claims about the discrete pet, checked under SpecLong *)

\* The end of a zero-session day for a living pet p.
ZeroDayEnds(p) ==
    (~p.is_dead /\ p.sessions_today = 0) =>
        LET q == EndOfDay(p)
        IN  /\ p.consecutive_zero_days = 1 => q.is_dead
            /\ p.consecutive_zero_days = 0 =>
                   ~q.is_dead /\ q.consecutive_zero_days = 1

\* A handler run that rolls the stored pet over two days.
TwoDayRollover ==
    (/\ pet'.last_day = pet.last_day + 2
     /\ ~pet.is_dead
     /\ lastHandler'.op \in {"start_or_continue", "cmd_next_session", "cmd_stop"}) =>
        /\ pet.sessions_today = 0 => pet'.is_dead
        /\ (pet.sessions_today > 0 /\ pet'.sessions_today = 0) =>
               ~pet'.is_dead /\ pet'.consecutive_zero_days = 1

\* C27: discrete pet model rollover: when a day with zero sessions ends, a pet
\* with consecutive_zero_days = 1 becomes dead (is_dead = true), whereas a pet
\* with consecutive_zero_days = 0 stays alive and only has its zero-day
\* counter raised.
C27_DeathOnSecondZeroDay ==
    /\ [](ZeroDayEnds(pet) /\ ZeroDayEnds(EndOfDay(pet)))
    /\ [][TwoDayRollover]_vars

\* A session was finished on day 0; day 1 ended with it counted, day 2 was the
\* first zero day and day 3 the second, which killed the pet.
C27_Witness ==
    /\ Len(sessions) >= 1
    /\ sessions[1].status = "passed"
    /\ pet.bonuses = 1
    /\ pet.last_day = 4
    /\ pet.is_dead
    /\ pet.consecutive_zero_days = ZeroDaysToDie

(***************************************************************************)
(* Care choices (SpecLong)                                                 *)
(***************************************************************************)

\* The levels apply_care_choice must leave: the chosen need two steps down
\* when it is the active need and one step down otherwise, not below the
\* minimum, every other need as it was.
CareLevels(levels, chosen, active) ==
    [n \in NeedSet |->
        IF n # chosen THEN levels[n]
        ELSE Max2(MinNeed, levels[n] - (IF chosen = active THEN 2 ELSE 1))]

voice_writes(S0, now_utc, ok) ==
    LET sid == get_active_session(S0)
        state == S0.session_state[sid]
        S1 == [S0 EXCEPT !.pet = rollover_if_needed(@, now_utc)]
        W(table, S) == [table |-> table, S |-> S]
    IN  IF \/ state.awaiting_care # 0
           \/ S1.pet.is_dead /\ state.mode # "revival"
           \/ ~(state.item_index < Len(state.deck))
        THEN <<>>
        ELSE
        LET deck_item == state.deck[state.item_index + 1]
            S2 == record_attempt(S1, sid, ok)
        IN  IF ok
            THEN LET S3 == [S2 EXCEPT !.ip = record_correct(@, Key(deck_item), now_utc)]
                     S4 == increment_correct(S3, sid)
                     S5 == advance_item(S4, sid)
                 IN  <<W("attempts", S2), W("item_progress", S3),
                       W("session_state", S4), W("session_state", S5)>>
            ELSE LET S3 == increment_wrong_total(S2, sid)
                     S4 == [S3 EXCEPT !.ip = record_wrong(@, Key(deck_item), now_utc)]
                     attempts_now == state.current_attempts + 1
                     S5 == IF attempts_now >= ForceAdvanceAt
                           THEN advance_item(S4, sid)
                           ELSE update_attempts(S4, sid, attempts_now)
                 IN  <<W("attempts", S2), W("session_state", S3),
                       W("item_progress", S4), W("session_state", S5)>>

\* The writes of the attempt are the handler's: whatever handle_voice leaves
\* of the session row after the attempt is what the last write left.
VoiceWritesAgree(ok) ==
    LET w == voice_writes(Store, now, ok)
        sid == get_active_session(Store)
    IN  \A r \in handle_voice(Store, now, ok) :
            IF w = <<>> THEN r.h.outcome \in {"awaiting_care", "pet_dead", "no_card"}
            ELSE /\ r.h.outcome \in {"accepted", "force_advance", "retry"}
                 /\ r.h.after = w[Len(w)].S.session_state[sid]
                 /\ r.S.attempts = w[Len(w)].S.attempts

\* C29: within the handling of one voice attempt, for both the correct and
\* the wrong branch, the durable writes occur in this order: the attempt is
\* logged, then ItemProgress is updated, then the session state is mutated,
\* then the pet; so whenever a session write is about to run (and may fail),
\* the attempt log and the item-progress update of that attempt are already
\* stored.
C29_LogProgressThenSession ==
    get_active_session(Store) # 0 =>
        \A ok \in BOOLEAN :
            LET w == voice_writes(Store, now, ok)
            IN  /\ VoiceWritesAgree(ok)
                /\ \A k \in 1..Len(w) :
                       w[k].table = "session_state" =>
                           /\ \E i \in 1..(k - 1) : w[i].table = "attempts"
                           /\ \E i \in 1..(k - 1) : w[i].table = "item_progress"

(***************************************************************************)
(* One attempt processed twice (Spec)                                      *)
(***************************************************************************)

\* Two handle_voice runs for the same learner (the same update delivered
\* twice, or two recordings handled as concurrent tasks) that both loaded the
\* session row at the same item_index and were judged alike: the stores they
\* can leave once both have finished the writes of lines 282-312.  Each run
\* logs its attempt, updates the item's progress and raises its counter;
\* advance_item re-reads the row (get_state) before update_index, so the
\* second advance starts from the index the first one wrote unless both reads
\* came before both writes.
handle_voice_twice(S0, now_utc, ok) ==
    LET sid == get_active_session(S0)
        state == S0.session_state[sid]
        S1 == [S0 EXCEPT !.pet = rollover_if_needed(@, now_utc)]
        deck_item == state.deck[state.item_index + 1]
        writes(S) ==
            IF ok
            THEN increment_correct(
                     [record_attempt(S, sid, ok) EXCEPT
                         !.ip = record_correct(@, Key(deck_item), now_utc)], sid)
            ELSE [increment_wrong_total(record_attempt(S, sid, ok), sid) EXCEPT
                     !.ip = record_wrong(@, Key(deck_item), now_utc)]
        S2 == writes(writes(S1))
        attempts_now == state.current_attempts + 1
        both_read_first ==
            update_attempts(update_index(S2, sid, S2.session_state[sid].item_index + 1),
                            sid, 0)
        one_after_the_other == advance_item(advance_item(S2, sid), sid)
    IN  IF \/ state.awaiting_care # 0
           \/ S1.pet.is_dead /\ state.mode # "revival"
           \/ ~(state.item_index < Len(state.deck))
        THEN {}
        ELSE IF ok \/ attempts_now >= ForceAdvanceAt
        THEN {both_read_first, one_after_the_other}
        ELSE {update_attempts(S2, sid, attempts_now)}

\* C30: advancing is idempotent per logical attempt: if the same attempt is
\* processed twice (a retry, or two interleaved handlers of the same user
\* that both read the session at item_index = i), item_index ends at i + 1
\* and never at i + 2, so no deck item is skipped without an attempt.
C30_AdvanceOncePerAttempt ==
    LET sid == get_active_session(Store)
    IN  sid # 0 =>
            \A ok \in BOOLEAN :
                \A T \in handle_voice_twice(Store, now, ok) :
                    T.session_state[sid].item_index
                        <= session_state[sid].item_index + 1

(***************************************************************************)
(* Care callbacks after the gate has closed (SpecLong)                     *)
(***************************************************************************)

\* C31: for each care gate opened in a session, the pet care choice is
\* applied at most once: after a valid choice has closed the gate
\* (awaiting_care = 0), any further care callback for that session, a repeat
\* of the same button included, changes neither the pet record nor the
\* session state until a new gate opens.
C31_CareAppliedOncePerGate ==
    LET sid == get_active_session(Store)
    IN  (/\ sid # 0
         /\ lastHandler.op = "on_care"
         /\ lastHandler.outcome = "applied"
         /\ lastHandler.sid = sid
         /\ session_state[sid].awaiting_care = 0) =>
            \A action \in CareActions :
                \A r \in on_care(Store, now, action) :
                    /\ r.S.pet = pet
                    /\ r.S.session_state = session_state

(***************************************************************************)
(* The deadline handler (Spec)                                             *)
(***************************************************************************)

\* The active sessions whose due time is earlier than the deadline time.
Overdue(S, when) ==
    {sid \in 1..Len(S.sessions) :
        /\ S.sessions[sid].status \in {"pending", "active"}
        /\ S.sessions[sid].due_at # NoneTs
        /\ S.sessions[sid].due_at < when}

\* C32: the deadline handler blocks (session status 'blocked',
\* SessionState.blocked = 1) exactly the active sessions whose due_at is
\* earlier than the deadline time: a session that is not yet due, or that has
\* no due time (freecare gate), is never blocked, and every overdue active
\* session is.
C32_DeadlineBlocksOverdue ==
    \A r \in on_deadline(Store, now) :
        \A sid \in 1..Len(sessions) :
            sessions[sid].status \in {"pending", "active"} =>
                /\ r.S.sessions[sid].status = "blocked" <=> sid \in Overdue(Store, now)
                /\ HasState(Store, sid) =>
                       (r.S.session_state[sid].blocked = 1 <=> sid \in Overdue(Store, now))

(***************************************************************************)
(* build_deck: the repeat fallback and the non-due entries (SpecDeck)      *)
(***************************************************************************)

\* The entries of the returned deck that the first three steps contributed.
BeforeFallback == deckCall.nDue + deckCall.nCur + deckCall.nOther

\* C33: repeat fallback: when the due, current-level and other-level steps
\* together yield fewer than total_items entries and the current level's
\* catalog is non-empty, the remaining slots are filled with the current
\* level's items in catalog order, cycling from the first catalog item (for
\* every current level and every progress snapshot, the one where all
\* current-level items are finished included); with an empty catalog
\* everywhere the deck is empty.
C33_RepeatFallbackInCatalogOrder ==
    deckCall.called =>
        LET level_items == IF LevelFileExists(catalog, deckCall.level)
                           THEN get_level_items(catalog, deckCall.level) ELSE <<>>
        IN  /\ (BeforeFallback < deckCall.total /\ level_items # <<>>) =>
                   /\ Len(deckCall.deck) = deckCall.total
                   /\ \A j \in 1..(deckCall.total - BeforeFallback) :
                          deckCall.deck[BeforeFallback + j] =
                              DeckItem(deckCall.level,
                                       level_items[((j - 1) % Len(level_items)) + 1].id)
            /\ (\A l \in DOMAIN catalog : catalog[l] = <<>>) => deckCall.deck = <<>>

\* The non-due entries the call added before the repeat fallback.
NonDueEntries == SubSeq(deckCall.deck, deckCall.nDue + 1, BeforeFallback)

\* C34: among the non-due entries that build_deck adds before the repeat
\* fallback, every current-level entry precedes every other-level entry,
\* other-level entries appear in ascending level order, no entry is a finished
\* item (review_stage = 3), and no (level, content_id) pair occurs twice.
C34_NonDueEntriesOrdered ==
    deckCall.called =>
        LET seg == NonDueEntries
        IN  /\ \A i, j \in 1..Len(seg) :
                   i < j =>
                       /\ seg[j].level = deckCall.level => seg[i].level = deckCall.level
                       /\ (seg[i].level # deckCall.level /\ seg[j].level # deckCall.level)
                              => seg[i].level <= seg[j].level
                       /\ Key(seg[i]) # Key(seg[j])
            /\ \A i \in 1..Len(seg) :
                   /\ ~is_finished(item_progress, seg[i].level, seg[i].content_id)
                   /\ \A d \in 1..deckCall.nDue : Key(deckCall.deck[d]) # Key(seg[i])

\* A call that added current-level entries and then entries of another
\* level, while a finished item of the catalog was left out.
C34_Witness ==
    /\ deckCall.called
    /\ deckCall.nCur >= 1
    /\ deckCall.nOther >= 1
    /\ BeforeFallback < deckCall.total
    /\ \E k \in CatalogKeys(catalog) : is_finished(item_progress, k[1], k[2])

(***************************************************************************)
(* Terminal sessions and their state rows (Spec)                           *)
(***************************************************************************)

\* C35: whenever a session's status is terminal ('done' or 'passed'), whether
\* reached by finishing the deck, by /stop or by /next_session, its
\* SessionState row no longer exists; no SessionState row outlives the
\* completion of its session.
C35_NoStateRowAfterCompletion ==
    \A sid \in 1..Len(sessions) :
        sessions[sid].status \in {"done", "passed"} => ~HasState(Store, sid)

(***************************************************************************)
(* The continuous pet: death and missed slots (SpecPet)                    *)
(***************************************************************************)

\* A dead pet stays dead in every step but a revive.
DeadStaysDead ==
    (petRow.is_dead /\ ~petRow'.is_dead) => petLog'.op = "revive"

\* C36: in the continuous pet model, once is_dead is true it becomes false
\* only through revive(): apply_decay, on_correct, on_correct_attempt,
\* on_wrong_attempt, perform_action, add_action_token and on_session_completed
\* all leave a dead pet dead.
C36_OnlyReviveRevives == [][DeadStaysDead]_vars

\* What a step does to the window of slots still to be counted: the last
\* check never moves back, apply_decay and on_session_completed move it to the
\* time of the call, and apply_decay on a living pet adds to the streak the
\* slots later than the last check and not later than the call, no others.
SlotWindowStep ==
    /\ petRow.last_checked_at # NoneTs =>
           /\ petRow'.last_checked_at # NoneTs
           /\ petRow'.last_checked_at >= petRow.last_checked_at
    /\ (petLog'.n = petLog.n + 1 /\ petLog'.op \in {"apply_decay", "on_session_completed"})
           => petRow'.last_checked_at = now
    /\ (petLog'.n = petLog.n + 1 /\ petLog'.op = "apply_decay" /\ ~petRow.is_dead) =>
           petRow'.missed_sessions_streak - petRow.missed_sessions_streak =
               IF petRow.last_checked_at = NoneTs THEN 0
               ELSE SlotsMissed(petRow.last_checked_at, now)

\* C38: across any sequence of apply_decay and on_session_completed calls
\* with non-decreasing timestamps, each scheduled session slot is counted as
\* missed at most once: calling apply_decay twice with the same now changes
\* nothing on the second call, and a slot that passed before the last check or
\* the last completed session is never counted again.
C38_SlotsCountedOnce ==
    /\ [](apply_decay(apply_decay(petRow, now), now) = apply_decay(petRow, now))
    /\ [](petRow.last_checked_at # NoneTs => petRow.last_checked_at <= now)
    /\ [][SlotWindowStep]_vars

\* A session was completed at 09:00, the time of the first slot; apply_decay
\* at 18:00 counts the 18:00 slot and not the 09:00 one, and a second
\* apply_decay at 18:00 would change nothing.
C38_Witness ==
    /\ petLog.op = "apply_decay"
    /\ petLog.at = 18 * 60
    /\ now = 18 * 60
    /\ ~petLog.before.is_dead
    /\ petLog.before.last_checked_at = 9 * 60
    /\ petLog.before.missed_sessions_streak = 0
    /\ petRow.missed_sessions_streak = 1
    /\ apply_decay(petRow, now) = petRow

(***************************************************************************)
(* The counters of a session and its attempt log (SpecLong)                *)
(***************************************************************************)

\* The counters of a stored session row agree with the attempts logged for
\* it, and the index lies between the correct answers and the deck length.
CountersAgree(S, sid) ==
    LET r == S.session_state[sid]
    IN  /\ S.attempts[sid].correct = r.correct_count
        /\ WrongAttempts(S.attempts, sid) = r.wrong_total
        /\ r.correct_count <= r.item_index
        /\ r.item_index <= r.total_items

\* The step finalizes a session: the progress written for its level is the
\* number of correct attempts logged, or what was stored if that was more.
ProgressAtFinalization ==
    (/\ lastHandler'.op \in {"handle_voice", "on_care"}
     /\ lastHandler'.outcome \in {"accepted", "force_advance", "applied"}
     /\ lastHandler'.finalized \in DOMAIN session_state
     /\ lastHandler'.finalized \notin DOMAIN session_state') =>
        LET f == lastHandler'.final
        IN  /\ progress'[f.level] =
                   Max2(progress[f.level], attempts'[lastHandler'.finalized].correct)
            /\ attempts'[lastHandler'.finalized].correct <= Len(f.deck)
            /\ attempts'[lastHandler'.finalized].correct <= f.total_items

\* C37: in every state reached by sequentially processed voice attempts and
\* care choices of one session: the number of correct attempts logged for the
\* session equals correct_count, the number of wrong attempts logged equals
\* wrong_total, and correct_count <= item_index <= total_items; hence the
\* progress value written at finalization never exceeds the deck length.
C37_CountersMatchLog ==
    /\ [](\A sid \in DOMAIN session_state : CountersAgree(Store, sid))
    /\ [][ProgressAtFinalization]_vars

\* A session with correct and wrong attempts logged was run to its end and
\* finalized, and its level progress is the number of its correct attempts.
C37_Witness ==
    /\ lastHandler.op \in {"handle_voice", "on_care"}
    /\ lastHandler.outcome \in {"accepted", "force_advance", "applied"}
    /\ lastHandler.finalized = 1
    /\ lastHandler.final.mode = "normal"
    /\ ~HasState(Store, 1)
    /\ attempts[1].correct >= 5
    /\ WrongAttempts(attempts, 1) >= 1
    /\ progress[lastHandler.final.level] = attempts[1].correct

(***************************************************************************)
(* The scheduler loop: one callback per event (SpecSched)                  *)
(***************************************************************************)

\* The iteration of _run that follows a callback selects another event than
\* the one the callback was just invoked for.
SelectsAnotherEvent ==
    (/\ sched.pc = "loop"
     /\ sched'.pc = "sleeping"
     /\ sched.next_event # NoEvent
     /\ sched.next_event \in sched.invoked) =>
        sched'.next_event # sched.next_event

\* C39: the scheduler loop fires each reminder and each deadline at most once
\* per session occurrence: after a callback has been invoked for an event, the
\* next iteration of _run never selects the same event (same label, kind and
\* time) again, for any reminder_minutes_before and deadline_minutes_after.
C39_EachEventOnce == [][SelectsAnotherEvent]_vars

(***************************************************************************)
(* The payload of a care gate (SpecLong)                                   *)
(***************************************************************************)

\* The last handler run opened a care gate that is still open.
GateJustOpened ==
    /\ lastHandler.op = "handle_voice"
    /\ lastHandler.outcome \in {"accepted", "force_advance"}
    /\ lastHandler.gate # 0
    /\ HasState(Store, lastHandler.gate)
    /\ session_state[lastHandler.gate].awaiting_care = 1

\* The needs other than a whose level is above the minimum.
PlausibleDecoys(a) == {k \in NeedSet \ {a} : pet.levels[k] > MinNeed}

\* C40: when a care gate opens, the stored payload offers exactly 3 distinct
\* care actions, one of which is the action for the active need, and the
\* active need is a need at the maximum current level; the two decoys are
\* drawn only from needs whose level is above the minimum (level > 1)
\* whenever at least two such other needs exist.
C40_CarePayload ==
    GateJustOpened =>
        LET cj == session_state[lastHandler.gate].care_json
            a == cj.active_need
        IN  /\ cj # NoCare
            /\ cj.options \subseteq CareActions
            /\ Cardinality(cj.options) = 3
            /\ a \in NeedSet
            /\ need_to_action(a) \in cj.options
            /\ \A n \in NeedSet : pet.levels[n] <= pet.levels[a]
            /\ Cardinality(PlausibleDecoys(a)) >= 2 =>
                   \A o \in cj.options \ {need_to_action(a)} :
                       ActionNeed(o) \in PlausibleDecoys(a)

\* A gate opened on a pet with at least two plausible decoys and at least one
\* other need at the minimum, which the payload does not offer.
C40_Witness ==
    /\ GateJustOpened
    /\ LET cj == session_state[lastHandler.gate].care_json
           a == cj.active_need
       IN  /\ Cardinality(PlausibleDecoys(a)) >= 2
           /\ \E k \in NeedSet \ {a} :
                  pet.levels[k] = MinNeed /\ need_to_action(k) \notin cj.options
           /\ Cardinality(cj.options) = 3

=============================================================================
